---------------------------- MODULE Spec2Model ----------------------------
(***************************************************************************)
(* Expense-photo platform: the Excel import paths, the photo upload        *)
(* endpoint and the Excel export, as state machines over the two tables    *)
(* (expense_items, expense_item_photos) and the object storage.            *)
(*                                                                         *)
(* Text is a sequence of one-character strings.  The tools read ASCII      *)
(* only, so a Hangul syllable is written as its romanisation and counts as *)
(* ONE character: <<"hap","gye">> is the two-character text "합계".        *)
(* A number is a decimal [m, e] standing for m / 10^e, kept normalised     *)
(* (e = 0 or m not divisible by 10), which is exact for every literal a    *)
(* cell can hold.                                                          *)
(***************************************************************************)
EXTENDS Integers, Sequences, FiniteSets, Bags, TLC

(***************************************************************************)
(* Characters and text                                                     *)
(***************************************************************************)
Digits == {"0", "1", "2", "3", "4", "5", "6", "7", "8", "9"}

DigitVal(c) ==
  CASE c = "0" -> 0 [] c = "1" -> 1 [] c = "2" -> 2 [] c = "3" -> 3
    [] c = "4" -> 4 [] c = "5" -> 5 [] c = "6" -> 6 [] c = "7" -> 7
    [] c = "8" -> 8 [] c = "9" -> 9

DigitChar(d) ==
  CASE d = 0 -> "0" [] d = 1 -> "1" [] d = 2 -> "2" [] d = 3 -> "3"
    [] d = 4 -> "4" [] d = 5 -> "5" [] d = 6 -> "6" [] d = 7 -> "7"
    [] d = 8 -> "8" [] d = 9 -> "9"

\* JS whitespace (\s): the alphabet of the model holds the blank only.
IsSpace(c) == c = " "

\* String.prototype.toLowerCase on the alphabet of the model: the only cased
\* characters are the Latin letters of the "NO" header.
LowerChar(c) == CASE c = "N" -> "n" [] c = "O" -> "o" [] OTHER -> c

ToLower(s) == [i \in 1..Len(s) |-> LowerChar(s[i])]

RECURSIVE TrimLeft(_)
TrimLeft(s) ==
  IF s # <<>> /\ IsSpace(Head(s)) THEN TrimLeft(Tail(s)) ELSE s

RECURSIVE TrimRight(_)
TrimRight(s) ==
  IF s # <<>> /\ IsSpace(s[Len(s)]) THEN TrimRight(SubSeq(s, 1, Len(s) - 1)) ELSE s

\* String.prototype.trim
Trim(s) == TrimRight(TrimLeft(s))

\* s.replace(/[chars]/g, "")
RemoveChars(s, chars) == SelectSeq(s, LAMBDA c : c \notin chars)

\* s.replace(/\s+/g, " "): every run of whitespace becomes one blank
RECURSIVE CollapseSpaces(_)
CollapseSpaces(s) ==
  IF s = <<>> THEN <<>>
  ELSE IF IsSpace(Head(s))
       THEN <<" ">> \o CollapseSpaces(TrimLeft(s))
       ELSE <<Head(s)>> \o CollapseSpaces(Tail(s))

AllDigits(s) == \A i \in 1..Len(s) : s[i] \in Digits

\* String.prototype.includes
Includes(s, pat) ==
  \E i \in 0..(Len(s) - Len(pat)) : SubSeq(s, i + 1, i + Len(pat)) = pat

\* the index of the first character of s that is in chars, 0 when there is none
FirstIn(s, chars) ==
  IF \E i \in 1..Len(s) : s[i] \in chars
  THEN CHOOSE i \in 1..Len(s) : s[i] \in chars /\ \A j \in 1..(i - 1) : s[j] \notin chars
  ELSE 0

\* s split at every character of seps (the fields between the separators)
RECURSIVE SplitAt(_, _)
SplitAt(s, seps) ==
  LET i == FirstIn(s, seps)
  IN  IF i = 0 THEN <<s>>
      ELSE <<SubSeq(s, 1, i - 1)>> \o SplitAt(SubSeq(s, i + 1, Len(s)), seps)

\* String.prototype.padStart(2, "0")
PadStart2(s) == IF Len(s) < 2 THEN <<"0">> \o s ELSE s

(***************************************************************************)
(* Numbers                                                                 *)
(***************************************************************************)
RECURSIVE Pow10(_)
Pow10(e) == IF e = 0 THEN 1 ELSE 10 * Pow10(e - 1)

RECURSIVE Normalise(_, _)
Normalise(m, e) ==
  IF e > 0 /\ m % 10 = 0 THEN Normalise(m \div 10, e - 1) ELSE [m |-> m, e |-> e]

Int2Num(i) == [m |-> i, e |-> 0]

NumLt(a, b) == a.m * Pow10(b.e) < b.m * Pow10(a.e)
NumIsInteger(a) == a.e = 0
\* Math.floor of a non-negative number
NumFloor(a) == a.m \div Pow10(a.e)

RECURSIVE DigitsValue(_)
DigitsValue(s) ==
  IF s = <<>> THEN 0 ELSE 10 * DigitsValue(SubSeq(s, 1, Len(s) - 1)) + DigitVal(s[Len(s)])

RECURSIVE NatToText(_)
NatToText(n) ==
  IF n < 10 THEN <<DigitChar(n)>> ELSE NatToText(n \div 10) \o <<DigitChar(n % 10)>>

RECURSIVE PadZeros(_, _)
PadZeros(s, w) == IF Len(s) < w THEN PadZeros(<<"0">> \o s, w) ELSE s

\* String(n) of a finite number
NumToText(a) ==
  LET abs  == IF a.m < 0 THEN -a.m ELSE a.m
      sign == IF a.m < 0 THEN <<"-">> ELSE <<>>
      whole == NatToText(abs \div Pow10(a.e))
      frac == IF a.e = 0 THEN <<>>
              ELSE <<".">> \o PadZeros(NatToText(abs % Pow10(a.e)), a.e)
  IN  sign \o whole \o frac

\* Number(s) of a text: surrounding whitespace is dropped, the empty text is
\* 0, a decimal literal (sign, digits, at most one point, at least one digit)
\* is its value and everything else is NaN.  The alphabet of the model has
\* no exponent, hex or Infinity spelling.  NaN is the value NotANumber.
NotANumber == [nan |-> TRUE]
IsNaN(x) == x = NotANumber

JsNumber(s) ==
  LET t    == Trim(s)
      neg  == t # <<>> /\ Head(t) = "-"
      body == IF t # <<>> /\ Head(t) \in {"-", "+"} THEN Tail(t) ELSE t
      parts == SplitAt(body, {"."})
      ip   == parts[1]
      fp   == IF Len(parts) = 2 THEN parts[2] ELSE <<>>
      ok   == /\ Len(parts) <= 2
              /\ AllDigits(ip) /\ AllDigits(fp)
              /\ Len(ip) + Len(fp) > 0
      mag  == DigitsValue(ip \o fp)
  IN  IF t = <<>> THEN Int2Num(0)
      ELSE IF ~ok THEN NotANumber
      ELSE Normalise(IF neg THEN -mag ELSE mag, Len(fp))


(***************************************************************************)
(* Cells, nullable values and the words of the workbooks                   *)
(***************************************************************************)
\* A cell as XLSX.utils.sheet_to_json(ws, {header: 1}) delivers it: a number
\* or a text.  An absent cell (undefined, null, or the "" of defval) is the
\* empty text: each place that reads a cell coerces it with String(c ?? "").
TextCell(s) == [num |-> FALSE, s |-> s, v |-> Int2Num(0)]
NumCell(v) == [num |-> TRUE, s |-> <<>>, v |-> v]
EmptyCell == TextCell(<<>>)

\* null for a number (number | null) and for a text (string | null; a text
\* that can be null is never the empty string where the code produces it)
NullN == [null |-> TRUE]
NoText == <<>>

\* String(c ?? "")
StringOf(c) == IF c.num THEN NumToText(c.v) ELSE c.s


(***************************************************************************)
(* components/PhotoSection.tsx: the helpers of importExcelExpenseItems     *)
(***************************************************************************)
\* norm: trim, collapse whitespace, lower case
Norm(s) == ToLower(CollapseSpaces(Trim(s)))

\* toNumber: a number cell is itself, a text is Number() of the text without
\* commas, and the empty text or a NaN is null
ToNumber(c) ==
  IF c.num THEN c.v
  ELSE LET s == RemoveChars(Trim(c.s), {","})
           n == JsNumber(s)
       IN  IF s = <<>> \/ IsNaN(n) THEN NullN ELSE n

\* XLSX.SSF.parse_date_code(v): null outside 0..2958465, otherwise the year,
\* month and day of the day count (v|0), with Excel's 29 February 1900 at 60
\* and its day 0 of January 1900.  [ok, y, m, d]
ParseDateCode(v) ==
  LET date == NumFloor(v)
      dd   == IF date > 60 THEN date - 1 ELSE date
      z    == dd + 693900
      era  == z \div 146097
      doe  == z - era * 146097
      yoe  == (doe - doe \div 1460 + doe \div 36524 - doe \div 146096) \div 365
      doy  == doe - (365 * yoe + yoe \div 4 - yoe \div 100)
      mp   == (5 * doy + 2) \div 153
      day  == doy - (153 * mp + 2) \div 5 + 1
      mon  == IF mp < 10 THEN mp + 3 ELSE mp - 9
      yr   == yoe + era * 400 + (IF mon <= 2 THEN 1 ELSE 0)
  IN  IF v.m < 0 \/ NumLt(Int2Num(2958465), v) THEN [ok |-> FALSE, y |-> 0, m |-> 0, d |-> 0]
      ELSE IF date = 60 THEN [ok |-> TRUE, y |-> 1900, m |-> 2, d |-> 29]
      ELSE IF date = 0 THEN [ok |-> TRUE, y |-> 1900, m |-> 1, d |-> 0]
      ELSE [ok |-> TRUE, y |-> yr, m |-> mon, d |-> day]

\* /^(\d{2})\.(\d{1,2})\.(\d{1,2})$/ and /^(\d{4})[-.](\d{1,2})[-.](\d{1,2})$/:
\* the three digit fields of s, when s is exactly three digit fields of these
\* widths joined by two separators
DateFields(s, seps) == SplitAt(s, seps)
MatchesDate(s, seps, yearLen) ==
  LET f == DateFields(s, seps)
  IN  /\ Len(f) = 3
      /\ AllDigits(f[1]) /\ AllDigits(f[2]) /\ AllDigits(f[3])
      /\ Len(f[1]) = yearLen
      /\ Len(f[2]) \in {1, 2}
      /\ Len(f[3]) \in {1, 2}

IsoText(yyyy, mm, dd) == yyyy \o <<"-">> \o mm \o <<"-">> \o dd

\* toISODate: a serial number or a text date as YYYY-MM-DD, otherwise null
ToISODate(c) ==
  IF c.num
  THEN LET d == ParseDateCode(c.v)
       IN  IF ~d.ok THEN NoText
           ELSE IsoText(PadZeros(NatToText(d.y), 4), PadZeros(NatToText(d.m), 2),
                        PadZeros(NatToText(d.d), 2))
  ELSE LET s == Trim(c.s)
       IN  IF s = <<>> THEN NoText
           ELSE IF MatchesDate(s, {"."}, 2)
           THEN LET f  == DateFields(s, {"."})
                    yy == DigitsValue(f[1])
                    yyyy == IF yy >= 70 THEN 1900 + yy ELSE 2000 + yy
                IN  IsoText(NatToText(yyyy), PadStart2(NatToText(DigitsValue(f[2]))),
                            PadStart2(NatToText(DigitsValue(f[3]))))
           ELSE IF MatchesDate(s, {"-", "."}, 4)
           THEN LET f == DateFields(s, {"-", "."})
                IN  IsoText(f[1], PadStart2(NatToText(DigitsValue(f[2]))),
                            PadStart2(NatToText(DigitsValue(f[3]))))
           ELSE NoText


\* the number of leading digits of s
RECURSIVE LeadingDigits(_)
LeadingDigits(s) ==
  IF s # <<>> /\ Head(s) \in Digits THEN 1 + LeadingDigits(Tail(s)) ELSE 0

\* /^\s*(\d+)\.\s*(.+)$/ on s: digits, a point and at least one more
\* character.  Group 2 is what follows the blanks after the point, or, when
\* only blanks follow, the last of them (.+ needs one character); the caller
\* trims it.  [found, categoryNo, rawTitle]
MatchCategoryText(s) ==
  LET t    == TrimLeft(s)
      nd   == LeadingDigits(t)
      rest == SubSeq(t, nd + 2, Len(t))
      g2   == IF TrimLeft(rest) = <<>> THEN <<" ">> ELSE TrimLeft(rest)
  IN  IF nd >= 1 /\ Len(t) >= nd + 2 /\ t[nd + 1] = "."
      THEN [found |-> TRUE, categoryNo |-> Int2Num(DigitsValue(SubSeq(t, 1, nd))),
            rawTitle |-> Trim(g2)]
      ELSE [found |-> FALSE, categoryNo |-> Int2Num(0), rawTitle |-> <<>>]

\* row.map(c => String(c ?? "").trim()).filter(Boolean).join(" ")
RECURSIVE JoinCells(_)
JoinCells(row) ==
  IF row = <<>> THEN <<>>
  ELSE LET h == Trim(StringOf(Head(row)))
           r == JoinCells(Tail(row))
       IN  IF h = <<>> THEN r
           ELSE IF r = <<>> THEN h
           ELSE h \o <<" ">> \o r

\* detectCategoryFromRow: the joined text of the row, then the first cell
\* that matches on its own
DetectCategoryFromRow(row) ==
  LET whole == MatchCategoryText(JoinCells(row))
      hits  == {i \in 1..Len(row) : MatchCategoryText(Trim(StringOf(row[i]))).found}
      first == CHOOSE i \in hits : \A j \in hits : i <= j
  IN  IF whole.found THEN whole
      ELSE IF hits # {} THEN MatchCategoryText(Trim(StringOf(row[first])))
      ELSE whole

\* a category key: one of the three fixed keys, or cat_{no}
FixedKey(name) == [name |-> name, no |-> Int2Num(0)]
NumberedKey(no) == [name |-> "cat_", no |-> no]
NullKey == [name |-> "null", no |-> Int2Num(0)]

\* mapCategoryKey: by number first, by title hint second, cat_{no} last
MapCategoryKey(categoryNo, rawTitle) ==
  LET t == Norm(rawTitle)
  IN  IF categoryNo = Int2Num(2) THEN FixedKey("safety_facility")
      ELSE IF categoryNo = Int2Num(3) THEN FixedKey("ppe")
      ELSE IF categoryNo = Int2Num(4) THEN FixedKey("safety_diagnosis")
      ELSE IF Includes(t, <<"gae", "in", "bo", "ho", "gu">>) THEN FixedKey("ppe")
      ELSE IF Includes(t, <<"an", "jeon", "si", "seol">>) THEN FixedKey("safety_facility")
      ELSE IF Includes(t, <<"an", "jeon", "jin", "dan">>) THEN FixedKey("safety_diagnosis")
      ELSE NumberedKey(categoryNo)

\* the total words parseDetailRow refuses as an item name: /^(계|합계)$/i
IsTotalName(s) == s \in {<<"gye">>, <<"hap", "gye">>}

\* the smallest element of a non-empty set of numbers
NumMin(S) == CHOOSE a \in S : \A b \in S : ~NumLt(b, a)
\* the smallest element of a set of indices, 0 when it is empty
FirstIndex(S) == IF S = {} THEN 0 ELSE CHOOSE i \in S : \A j \in S : i <= j

NoDetail ==
  [ok |-> FALSE, used_at |-> NoText, item_name |-> <<>>, qty |-> NullN,
   unit_price |-> NullN, amount |-> NullN]

\* parseDetailRow, the date: the first of the first five cells toISODate
\* accepts (0: none)
DetailDateIdx(row) ==
  FirstIndex({i \in 1..(IF Len(row) < 5 THEN Len(row) ELSE 5) : ToISODate(row[i]) # NoText})

\* parseDetailRow, the name: the first of the three cells after the date
\* whose trimmed text is neither empty nor a total word (0: none)
DetailNameIdx(row, dateIdx) ==
  FirstIndex({i \in (dateIdx + 1)..(IF Len(row) < dateIdx + 3 THEN Len(row) ELSE dateIdx + 3) :
                Trim(StringOf(row[i])) # <<>> /\ ~IsTotalName(Trim(StringOf(row[i])))})

\* parseDetailRow, numericCells.slice(-3): the indices of the last three
\* cells toNumber accepts
LastThree(idxs) == IF Len(idxs) <= 3 THEN idxs ELSE SubSeq(idxs, Len(idxs) - 2, Len(idxs))
DetailNumIdxs(nums) == SelectSeq([i \in 1..Len(nums) |-> i], LAMBDA i : nums[i] # NullN)

\* parseDetailRow, the fallback quantity: the positive numbers below 100000
DetailSmalls(nums) ==
  {x \in {nums[i] : i \in 1..Len(nums)} : x # NullN /\ x.m > 0 /\ NumLt(x, Int2Num(100000))}

\* parseDetailRow once the name, the numbers and the last three are known
DetailFrom(used_at, item_name, nums, last, smalls) ==
  LET qty == nums[last[1]]
  IN  IF qty.m <= 0 /\ smalls = {} THEN NoDetail
      ELSE [ok |-> TRUE, used_at |-> used_at, item_name |-> item_name,
            qty |-> IF qty.m <= 0 THEN NumMin(smalls) ELSE qty,
            unit_price |-> IF Len(last) >= 3 THEN nums[last[2]] ELSE NullN,
            amount |-> IF Len(last) >= 3 THEN nums[last[3]] ELSE nums[last[Len(last)]]]

DetailAt(row, dateIdx, nameIdx, nums) ==
  IF nameIdx = 0 \/ DetailNumIdxs(nums) = <<>> THEN NoDetail
  ELSE DetailFrom(IF dateIdx = 0 THEN NoText ELSE ToISODate(row[dateIdx]),
                  Trim(StringOf(row[nameIdx])), nums,
                  LastThree(DetailNumIdxs(nums)), DetailSmalls(nums))

\* parseDetailRow: the first date among the first five cells, the first
\* usable text of the three cells after it as the name, and the last three
\* numeric cells as quantity, unit price and amount
ParseDetailRow(row) ==
  DetailAt(row, DetailDateIdx(row), DetailNameIdx(row, DetailDateIdx(row)),
           [i \in 1..Len(row) |-> ToNumber(row[i])])

\* row.every(c => String(c ?? "").trim() === "")
IsBlankRow(row) == \A i \in 1..Len(row) : Trim(StringOf(row[i])) = <<>>

\* counters[key] ?? 0, counters being a set of <<key, count>> pairs
CounterOf(counters, key) ==
  IF \E p \in counters : p[1] = key
  THEN (CHOOSE p \in counters : p[1] = key)[2]
  ELSE 0

SetCounter(counters, key, n) == {p \in counters : p[1] # key} \cup {<<key, n>>}

\* one turn of the loop of importExcelExpenseItems: a blank row is skipped, a
\* category row sets the current category and zeroes its counter, a detail
\* row under a category takes the next number of that category.
\* st = [has, key, no, counters, out]
ImportRow(st, docId, blank, cat, key, detail, evidence_no) ==
  IF blank THEN st
  ELSE IF cat.found
  THEN [st EXCEPT !.has = TRUE, !.key = key, !.no = cat.categoryNo,
                  !.counters = SetCounter(st.counters, key, 0)]
  ELSE IF ~st.has \/ ~detail.ok THEN st
  ELSE [st EXCEPT !.counters = SetCounter(st.counters, st.key, evidence_no),
                  !.out = Append(st.out,
                    [doc_id |-> docId, category_key |-> st.key,
                     category_no |-> st.no, evidence_no |-> Int2Num(evidence_no),
                     used_at |-> detail.used_at, item_name |-> detail.item_name,
                     qty |-> detail.qty, unit_price |-> detail.unit_price,
                     amount |-> detail.amount])]

CategoryKeyOf(cat) == MapCategoryKey(cat.categoryNo, cat.rawTitle)

\* the loop of importExcelExpenseItems over rows[r..]
RECURSIVE ImportLoop(_, _, _, _)
ImportLoop(rows, r, docId, st) ==
  IF r > Len(rows) THEN st
  ELSE ImportLoop(rows, r + 1, docId,
         ImportRow(st, docId, IsBlankRow(rows[r]), DetectCategoryFromRow(rows[r]),
                   CategoryKeyOf(DetectCategoryFromRow(rows[r])),
                   ParseDetailRow(rows[r]), CounterOf(st.counters, st.key) + 1))

\* the upsertRows importExcelExpenseItems builds from a workbook
BuildUpsertRows(rows, docId) ==
  ImportLoop(rows, 1, docId,
    [has |-> FALSE, key |-> NullKey, no |-> NullN, counters |-> {}, out |-> <<>>]).out


(***************************************************************************)
(* State                                                                   *)
(***************************************************************************)
VARIABLES
  wb,             \* the workbook the user uploads: the names of the rows of its first sheet
  wbBatch,        \* the upsertRows the loop of importExcelExpenseItems builds from wb
  expense_items,  \* the expense_items table: a set of rows, each with its id
  nextId,         \* the next id the database gives to an inserted row
  upsertRows,     \* the batch the last importExcelExpenseItems call built
  log,            \* the last handler call: [op, doc, result]
  itemsBefore,    \* expense_items as it was before the last handler call
  wbPreview,      \* what parseExcelForPreview makes of wb: [ok, reason, rows]
  excelPreview,   \* the excelPreview state of the main page: [set, rows]
  doc,            \* the doc state of the main page: a document id or NoDoc
  variant,        \* the version of api/photos/upload/route.ts that serves: "A" or "B"
  uniqueSlot,     \* whether the table refuses a second row of an (item, kind, slot)
  expense_item_photos,  \* the photo table: rows [id, doc_id, item_id, kind, slot_index, storage_path]
  storage,        \* the stored objects: [bucket, path, file]
  reqs,           \* the upload requests: number -> [pc, docId, itemId, kind, slot, file, existing, result]
  exp,            \* the export request: [pc, items, idx, queue, pos]
  attempts,       \* the fetches made for the photo the export is at: [path, bucket, ok, file]
  placed,         \* the images the export has put on photo sheets: [item, kind, range, path]
  response,       \* the response of the export: "none", "workbook" or "error"
  book,           \* the workbook of the export: [items, cells, sheets]
  expense_docs,   \* the expense_docs table: a set of rows [id, site_name, month_key]
  docReqs,        \* the createOrLoadDoc / createDoc calls: number -> [pc, site, month, doc]
  call,           \* the last call of a conversion function: [fn, arg, out]
  combo,          \* an ItemCombobox: [items, dedupeBy, value, open, q]
  view,           \* a PhotoSection: [itemId, slots, loads, changes]
  tabs            \* the saves of the browser tabs: tab -> [pc, existing, selOk]

itemVars == <<wb, wbBatch, expense_items, nextId, upsertRows, itemsBefore>>
importVars == <<itemVars, log>>
pageVars == <<wbPreview, excelPreview, doc>>
uploadVars == <<variant, uniqueSlot, expense_item_photos, storage, reqs>>
exportVars == <<exp, attempts, placed, response, book>>
docVars == <<expense_docs, docReqs>>
viewVars == <<combo, view, tabs>>
vars == <<importVars, pageVars, uploadVars, exportVars, docVars, call, viewVars>>

\* the documents of the model
Docs == {"d1", "d2"}

\* the workbook holds at most MaxRows rows
MaxRows == 4

\* the database gives out the ids 1..MaxIds
MaxIds == 4

\* doc = null, excelPreview = null
NoDoc == "none"
\* a preview that stays on the page, its rows gone
StalePreview == [set |-> TRUE, rows |-> <<>>]
NullPreview == [set |-> FALSE, rows |-> <<>>]
\* the main page as it is mounted, with no workbook chosen
PageIdle ==
  /\ wbPreview = [ok |-> FALSE, reason |-> "", rows |-> <<>>]
  /\ excelPreview = NullPreview
  /\ doc = NoDoc

\* the endpoint receives at most MaxUploads upload requests
MaxUploads == 2

\* an upload request that has not arrived
NoReq ==
  [pc |-> "idle", docId |-> "", itemId |-> "", kind |-> "", slot |-> Int2Num(0),
   file |-> "none", existing |-> 0, result |-> ""]
\* no photo, no object and no request
UploadIdle ==
  /\ variant = "A"
  /\ uniqueSlot = TRUE
  /\ expense_item_photos = {}
  /\ storage = {}
  /\ reqs = [k \in 1..MaxUploads |-> NoReq]

\* an item has at most MaxPhotos photo records of one kind
MaxPhotos == 5

\* the workbook before the items are selected: no item, no line written on
\* the first sheet, no photo sheet added
NoBook == [items |-> <<>>, cells |-> {}, sheets |-> <<>>]

\* no export request
ExportIdle ==
  /\ exp = [pc |-> "idle", items |-> <<>>, idx |-> 0, queue |-> <<>>, pos |-> 0]
  /\ attempts = <<>>
  /\ placed = {}
  /\ response = "none"
  /\ book = NoBook

\* at most MaxDocCalls calls of createOrLoadDoc / createDoc
MaxDocCalls == 3

\* a call that has not begun; doc 0 is no document
NoDocReq == [pc |-> "idle", site |-> "", month |-> "", doc |-> 0]
NoCall == [fn |-> "none", arg |-> <<>>, out |-> <<>>]

\* the documents d1 and d2 exist, no document call, no conversion call
DocsIdle ==
  /\ expense_docs = {[id |-> "d1", site_name |-> "site", month_key |-> "2026-01"],
                     [id |-> "d2", site_name |-> "site", month_key |-> "2026-02"]}
  /\ docReqs = [k \in 1..MaxDocCalls |-> NoDocReq]
  /\ call = NoCall

\* the slots of a PhotoSection
SlotKeys == {"inbound", "install0", "install1"}

\* empty(): a slot with no picture; item is the item a picture belongs to
EmptySlot == [url |-> "none", item |-> "", file |-> FALSE]
EmptySlots == [k \in SlotKeys |-> EmptySlot]

NoCombo == [items |-> <<>>, dedupeBy |-> "item_name", value |-> "", open |-> FALSE, q |-> <<>>]
NoView == [itemId |-> "", slots |-> EmptySlots, loads |-> {}, changes |-> 0]

\* the browser tabs that show the main page
Tabs == {1, 2}
NoTabs == [t \in Tabs |-> [pc |-> "idle", existing |-> {}, selOk |-> TRUE]]

\* no combobox and no photo section on the screen, no save under way
ViewIdle == combo = NoCombo /\ view = NoView /\ tabs = NoTabs

NoOp == [op |-> "none", doc |-> "", result |-> ""]
Logged(op, d, result) == [op |-> op, doc |-> d, result |-> result]

\* a filter that forgets the document
ItemsOfAnyDoc(table, d) == table

\* the rows of a table with .eq("doc_id", d)
ItemsOf(table, d) == {t \in table : t.doc_id = d}

\* all sequences over S of length 0..n
SeqsUpTo(S, n) == UNION {[1..k -> S] : k \in 0..n}

(***************************************************************************)
(* The rows a workbook of the import of PhotoSection.tsx is made of: five  *)
(* columns, date / name / quantity / unit price / amount (the layout the   *)
(* comment of parseDetailRow assumes), and category rows "N. title".       *)
(***************************************************************************)

ImportRowNames == {"cat2", "cat3", "cat7", "shoes", "signs", "subtotal", "blank"}

ImportRowCells(n) ==
  CASE n = "cat2" ->      \* "2. 안전시설물"
         <<TextCell(<<"2", ".", " ", "an", "jeon", "si", "seol", "mul">>),
           EmptyCell, EmptyCell, EmptyCell, EmptyCell>>
    [] n = "cat3" ->      \* "3. 개인보호구"
         <<TextCell(<<"3", ".", " ", "gae", "in", "bo", "ho", "gu">>),
           EmptyCell, EmptyCell, EmptyCell, EmptyCell>>
    [] n = "cat7" ->      \* "7.개인보호구" in a merged middle cell
         <<EmptyCell, TextCell(<<"7", ".", "gae", "in", "bo", "ho", "gu">>),
           EmptyCell, EmptyCell, EmptyCell>>
    [] n = "shoes" ->     \* 45000 | 안전화 | 10 | 500 | 5000
         <<NumCell(Int2Num(45000)), TextCell(<<"an", "jeon", "hwa">>),
           NumCell(Int2Num(10)), NumCell(Int2Num(500)), NumCell(Int2Num(5000))>>
    [] n = "signs" ->     \* 45001 | 표지판 | "1,234" | 2 | 2468
         <<NumCell(Int2Num(45001)), TextCell(<<"pyo", "ji", "pan">>),
           TextCell(<<"1", ",", "2", "3", "4">>), NumCell(Int2Num(2)), NumCell(Int2Num(2468))>>
    [] n = "dated" ->     \* "25.12.22" | 장갑 | 3 | 100 | 300
         <<TextCell(<<"2", "5", ".", "1", "2", ".", "2", "2">>), TextCell(<<"jang", "gap">>),
           NumCell(Int2Num(3)), NumCell(Int2Num(100)), NumCell(Int2Num(300))>>
    [] n = "subtotal" ->  \* | 소계 | | | 7468
         <<EmptyCell, TextCell(<<"so", "gye">>), EmptyCell, EmptyCell, NumCell(Int2Num(7468))>>
    [] n = "blank" ->
         <<EmptyCell, TextCell(<<" ">>), EmptyCell, EmptyCell, EmptyCell>>

\* the rows sheet_to_json delivers for a workbook
ImportRowsOf(w) == [i \in 1..Len(w) |-> ImportRowCells(w[i])]

(***************************************************************************)
(* The persistence collaborator                                            *)
(***************************************************************************)
\* the conflict key of importExcelExpenseItems: doc_id,category_key,evidence_no
ConflictKey(row) == <<row.doc_id, row.category_key, row.evidence_no>>

\* a check that finds no repeated key
HasDuplicateKeysNever(batch) == FALSE

\* two rows of one batch with the same conflict key: the database refuses
\* the statement (ON CONFLICT DO UPDATE cannot affect a row a second time)
HasDuplicateKeys(batch) ==
  \E i, j \in 1..Len(batch) : i < j /\ ConflictKey(batch[i]) = ConflictKey(batch[j])

WithId(row, id) ==
  [id |-> id, doc_id |-> row.doc_id, category_key |-> row.category_key,
   category_no |-> row.category_no, evidence_no |-> row.evidence_no,
   used_at |-> row.used_at, item_name |-> row.item_name, qty |-> row.qty,
   unit_price |-> row.unit_price, amount |-> row.amount]

\* an upsert that forgets its conflict key: every row of the batch is inserted
RECURSIVE UpsertRowsInsertOnly(_, _, _)
UpsertRowsInsertOnly(table, nid, batch) ==
  IF batch = <<>> THEN [table |-> table, nextId |-> nid]
  ELSE UpsertRowsInsertOnly(table \cup {WithId(Head(batch), nid)}, nid + 1, Tail(batch))

\* an upsert that leaves a row it meets as it is (DO NOTHING)
RECURSIVE UpsertRowsKeepOld(_, _, _)
UpsertRowsKeepOld(table, nid, batch) ==
  IF batch = <<>> THEN [table |-> table, nextId |-> nid]
  ELSE IF \E t \in table : ConflictKey(t) = ConflictKey(Head(batch))
       THEN UpsertRowsKeepOld(table, nid, Tail(batch))
       ELSE UpsertRowsKeepOld(table \cup {WithId(Head(batch), nid)}, nid + 1, Tail(batch))

\* upsert(batch, {onConflict}): a row whose key is in the table replaces the
\* columns of that row (the id stays), any other row is inserted under the
\* next id.  [table, nextId]
RECURSIVE UpsertRows(_, _, _)
UpsertRows(table, nid, batch) ==
  IF batch = <<>> THEN [table |-> table, nextId |-> nid]
  ELSE LET row == Head(batch)
           hit == {t \in table : ConflictKey(t) = ConflictKey(row)}
       IN  IF hit # {}
           THEN UpsertRows((table \ hit) \cup {WithId(row, t.id) : t \in hit}, nid, Tail(batch))
           ELSE UpsertRows(table \cup {WithId(row, nid)}, nid + 1, Tail(batch))

(***************************************************************************)
(* importExcelExpenseItems(supabase, file, docId)                          *)
(***************************************************************************)
\* The loop reads nothing but the file, so what it builds is fixed with the
\* workbook: wbBatch holds it from the moment the workbook is chosen (with no
\* document yet), and the call completes it with its docId.
ImportExcelExpenseItems(d) ==
  LET batch == [i \in 1..Len(wbBatch) |-> [wbBatch[i] EXCEPT !.doc_id = d]]
      done  == UpsertRows(expense_items, nextId, batch)
  IN  /\ upsertRows' = batch
      /\ itemsBefore' = expense_items
      /\ UNCHANGED <<wb, wbBatch, pageVars, uploadVars, exportVars, docVars, call, viewVars>>
      /\ IF batch = <<>>
         THEN \* no detail row: a warning and insertedOrUpdated = 0, no write
              /\ log' = Logged("import", d, "empty")
              /\ UNCHANGED <<expense_items, nextId>>
         ELSE \E dbOk \in BOOLEAN :
                IF dbOk /\ ~HasDuplicateKeys(batch)
                THEN /\ expense_items' = done.table
                     /\ nextId' = done.nextId
                     /\ log' = Logged("import", d, "ok")
                ELSE \* the upsert answers with an error: the handler throws
                     /\ log' = Logged("import", d, "error")
                     /\ UNCHANGED <<expense_items, nextId>>

\* what an earlier import of the workbook "2. 안전시설물" / 표지판 into d1 left
EarlierImport ==
  UpsertRows({}, 1, BuildUpsertRows(ImportRowsOf(<<"cat2", "signs">>), "d1"))

\* the table is empty or holds the rows of an earlier import
InitImport ==
  /\ wb \in SeqsUpTo(ImportRowNames, MaxRows)
  /\ wbBatch = BuildUpsertRows(ImportRowsOf(wb), "")
  /\ \E earlier \in {[table |-> {}, nextId |-> 1], EarlierImport} :
       /\ expense_items = earlier.table
       /\ nextId = earlier.nextId
  /\ upsertRows = <<>>
  /\ log = NoOp
  /\ itemsBefore = {}
  /\ PageIdle
  /\ UploadIdle
  /\ ExportIdle
  /\ DocsIdle
  /\ ViewIdle

NextImport == \E d \in Docs : ImportExcelExpenseItems(d)

SpecImport == InitImport /\ [][NextImport]_vars

\* the rows of the sheets whose used-at dates are typed as text
DatedRowNames == {"cat2", "cat3", "shoes", "dated", "subtotal"}

\* an import of a sheet with dates typed as text into an empty table or
\* after an earlier import
InitDated ==
  /\ wb \in SeqsUpTo(DatedRowNames, MaxRows)
  /\ wbBatch = BuildUpsertRows(ImportRowsOf(wb), "")
  /\ \E earlier \in {[table |-> {}, nextId |-> 1], EarlierImport} :
       /\ expense_items = earlier.table
       /\ nextId = earlier.nextId
  /\ upsertRows = <<>>
  /\ log = NoOp
  /\ itemsBefore = {}
  /\ PageIdle
  /\ UploadIdle
  /\ ExportIdle
  /\ DocsIdle
  /\ ViewIdle

SpecDated == InitDated /\ [][NextImport]_vars


(***************************************************************************)
(* app/page.tsx: parseExcelForPreview and its helpers                      *)
(***************************************************************************)
\* norm of parseExcelForPreview: trim, lower case, then drop all whitespace,
\* the brackets ()【】[]{} and the marks . : ·
PageNorm(s) ==
  RemoveChars(ToLower(Trim(s)),
    {" ", "(", ")", "[[", "]]", "[", "]", "{", "}", ".", ":", "middot"})

\* toNumberOrNull: Number() of the text without commas when it is above 0
ToNumberOrNull(c) ==
  LET n == JsNumber(RemoveChars(Trim(StringOf(c)), {","}))
  IN  IF ~IsNaN(n) /\ n.m > 0 THEN n ELSE NullN

\* toNumberOrZero: null for an absent or empty cell, otherwise Number() of
\* the text without commas, 0 included
ToNumberOrZero(c) ==
  LET n == JsNumber(RemoveChars(Trim(StringOf(c)), {","}))
  IN  IF c = EmptyCell \/ IsNaN(n) THEN NullN ELSE n

\* String(d.y).slice(-2)
LastTwo(s) == IF Len(s) <= 2 THEN s ELSE SubSeq(s, Len(s) - 1, Len(s))

\* toDateDisplay: a serial number as YY.MM.DD, a text as it is (trimmed)
ToDateDisplay(c) ==
  IF c.num
  THEN LET d == ParseDateCode(c.v)
       IN  IF ~d.ok THEN NoText
           ELSE LastTwo(NatToText(d.y)) \o <<".">> \o PadZeros(NatToText(d.m), 2)
                \o <<".">> \o PadZeros(NatToText(d.d), 2)
  ELSE Trim(c.s)

\* toDateForDb once the three fields are cut: the century is put before a
\* two-digit year, month and day are padded, nothing is converted
DateForDbOf(f) ==
  IsoText(IF Len(f[1]) = 4 THEN f[1]
          ELSE IF DigitsValue(f[1]) >= 70 THEN <<"1", "9">> \o f[1] ELSE <<"2", "0">> \o f[1],
          PadStart2(f[2]), PadStart2(f[3]))

\* toDateForDb: YY.M.D and YYYY-M-D / YYYY.M.D become YYYY-MM-DD, null stays
\* null, and every other text is returned as it is
ToDateForDb(s) ==
  IF s = NoText THEN NoText
  ELSE IF MatchesDate(s, {"."}, 2) THEN DateForDbOf(DateFields(s, {"."}))
  ELSE IF MatchesDate(s, {"-", "."}, 4) THEN DateForDbOf(DateFields(s, {"-", "."}))
  ELSE s

\* row.includes(w) for some w of words, on the normalised cells of a row
RowHas(row, words) == \E i \in 1..Len(row) : PageNorm(StringOf(row[i])) \in words

\* the score findHeaderRow gives a row
HeaderScore(row) ==
  (IF RowHas(row, {<<"hang", "mok">>}) THEN 3 ELSE 0)                    \* 항목
  + (IF RowHas(row, {<<"sa", "yong", "nae", "yeok">>, <<"pum", "myeong">>,
                     <<"nae", "yong">>, <<"jeok", "yo">>}) THEN 2 ELSE 0) \* 사용내역 품명 내용 적요
  + (IF RowHas(row, {<<"sa", "yong", "il", "ja">>, <<"il", "ja">>}) THEN 1 ELSE 0) \* 사용일자 일자
  + (IF RowHas(row, {<<"su", "ryang">>}) THEN 2 ELSE 0)                  \* 수량

\* findHeaderRow: the first row with the highest score above 0, 0 if none
\* (scanMax is 30, more than a workbook of the model has)
FindHeaderRow(rows) ==
  FirstIndex({i \in 1..Len(rows) :
                /\ HeaderScore(rows[i]) > 0
                /\ \A j \in 1..Len(rows) : HeaderScore(rows[j]) <= HeaderScore(rows[i])})

\* colIndex: the first column whose normalised header is one of cands, 0 if none
ColIndex(header, cands) ==
  FirstIndex({i \in 1..Len(header) : PageNorm(StringOf(header[i])) \in cands})

\* the six columns parseExcelForPreview looks for
ColumnsOf(header) ==
  [cHangmok |-> ColIndex(header, {<<"hang", "mok">>, <<"gu", "bun">>,
                                  <<"dae", "bun", "ryu">>}),           \* 항목 구분 대분류
   cIlja    |-> ColIndex(header, {<<"sa", "yong", "il", "ja">>, <<"il", "ja">>,
                                  <<"sa", "yong", "il">>,
                                  <<"bal", "haeng", "il", "ja">>}),    \* 사용일자 일자 사용일 발행일자
   cNaeyeok |-> ColIndex(header, {<<"sa", "yong", "nae", "yeok">>, <<"pum", "myeong">>,
                                  <<"nae", "yong">>, <<"jeok", "yo">>, <<"pum", "mok">>,
                                  <<"pum", "mok", "myeong">>}),        \* 사용내역 품명 내용 적요 품목 품목명
   cSuryang |-> ColIndex(header, {<<"su", "ryang">>}),                 \* 수량
   cDanga   |-> ColIndex(header, {<<"dan", "ga">>}),                   \* 단가
   cGeumaek |-> ColIndex(header, {<<"geum", "aek">>, <<"sa", "yong", "geum", "aek">>,
                                  <<"hap", "gye">>})]                  \* 금액 사용금액 합계

\* r[c] when the column was found, the absent cell otherwise
CellAt(r, c) == IF c >= 1 /\ c <= Len(r) THEN r[c] ELSE EmptyCell

\* /^계$|^합계$/i
IsGye(s) == s \in {<<"gye">>, <<"hap", "gye">>}

\* the preview row the body loop makes of a sheet row.  category is the
\* cell of the 항목 column or, when that is empty, the last one seen.
PreviewRowOf(r, cols, lastCategory) ==
  [category   |-> IF Trim(StringOf(CellAt(r, cols.cHangmok))) # <<>>
                  THEN Trim(StringOf(CellAt(r, cols.cHangmok))) ELSE lastCategory,
   used_at    |-> ToDateDisplay(CellAt(r, cols.cIlja)),
   item_name  |-> Trim(StringOf(CellAt(r, cols.cNaeyeok))),
   qty        |-> IF ToNumberOrNull(CellAt(r, cols.cSuryang)) = NullN THEN Int2Num(0)
                  ELSE ToNumberOrNull(CellAt(r, cols.cSuryang)),
   isDetail   |-> /\ Trim(StringOf(CellAt(r, cols.cNaeyeok))) # <<>>
                  /\ ~IsGye(Trim(StringOf(CellAt(r, cols.cNaeyeok)))),
   unit_price |-> ToNumberOrZero(CellAt(r, cols.cDanga)),
   amount     |-> ToNumberOrZero(CellAt(r, cols.cGeumaek)),
   evidence_no |-> 0]

\* if (category || item_name || used_at || qty > 0) preview.push(..)
IsPushed(p) == p.category # <<>> \/ p.item_name # <<>> \/ p.used_at # NoText \/ p.qty.m > 0

\* the body loop of parseExcelForPreview over body[i..]
RECURSIVE PreviewLoop(_, _, _, _, _)
PreviewLoop(body, i, cols, lastCategory, out) ==
  IF i > Len(body) THEN out
  ELSE PreviewLoop(body, i + 1, cols, PreviewRowOf(body[i], cols, lastCategory).category,
         IF IsPushed(PreviewRowOf(body[i], cols, lastCategory))
         THEN Append(out, PreviewRowOf(body[i], cols, lastCategory)) ELSE out)

\* a preview row that carries a category and nothing else
IsCategoryOnly(p) ==
  /\ ~p.isDetail /\ p.item_name = <<>> /\ p.used_at = NoText
  /\ p.qty = Int2Num(0) /\ p.amount = NullN /\ p.unit_price = NullN

\* parts.join(" "), parts being the distinct categories of a run of rows
RECURSIVE JoinParts(_, _)
JoinParts(run, seen) ==
  IF run = <<>> THEN <<>>
  ELSE IF Head(run).category = <<>> \/ Head(run).category \in seen
       THEN JoinParts(Tail(run), seen)
       ELSE <<" ">> \o Head(run).category
            \o JoinParts(Tail(run), seen \cup {Head(run).category})

\* the end of the run of category-only rows (not 계/합계) that starts at idx
RECURSIVE RunEnd(_, _)
RunEnd(preview, idx) ==
  IF idx + 1 <= Len(preview) /\ IsCategoryOnly(preview[idx + 1])
     /\ ~IsGye(preview[idx + 1].category)
  THEN RunEnd(preview, idx + 1) ELSE idx

\* the merge of adjacent category-only rows into one
RECURSIVE Collapse(_, _)
Collapse(preview, idx) ==
  IF idx > Len(preview) THEN <<>>
  ELSE IF IsCategoryOnly(preview[idx]) /\ ~IsGye(preview[idx].category)
  THEN <<[preview[idx] EXCEPT !.category =
            IF Trim(preview[idx].category
                    \o JoinParts(SubSeq(preview, idx + 1, RunEnd(preview, idx)),
                                 {preview[idx].category})) # <<>>
            THEN Trim(preview[idx].category
                      \o JoinParts(SubSeq(preview, idx + 1, RunEnd(preview, idx)),
                                   {preview[idx].category}))
            ELSE preview[idx].category]>>
       \o Collapse(preview, RunEnd(preview, idx) + 1)
  ELSE <<preview[idx]>> \o Collapse(preview, idx + 1)

\* hasData: a detail row, or a row with a date, a quantity, an amount or a
\* unit price
HasData(p) ==
  \/ p.isDetail
  \/ p.used_at # NoText
  \/ p.qty.m > 0
  \/ (p.amount # NullN /\ p.amount # Int2Num(0))
  \/ (p.unit_price # NullN /\ p.unit_price # Int2Num(0))

\* the evidence numbers of the preview: the detail rows count from 1
NumberDetails(filtered) ==
  [i \in 1..Len(filtered) |->
     IF filtered[i].isDetail
     THEN [filtered[i] EXCEPT !.evidence_no =
             Len(SelectSeq(SubSeq(filtered, 1, i), LAMBDA p : p.isDetail))]
     ELSE filtered[i]]

\* what parseExcelForPreview makes of the filtered rows: an error when no
\* detail row is left, the numbered preview otherwise
PreviewOf(filtered) ==
  IF \A i \in 1..Len(filtered) : ~filtered[i].isDetail
  THEN [ok |-> FALSE, reason |-> "no detail", rows |-> <<>>]
  ELSE [ok |-> TRUE, reason |-> "", rows |-> NumberDetails(filtered)]

\* parseExcelForPreview after the header is found at headerIdx
PreviewWithHeader(rows, headerIdx, cols) ==
  IF cols.cNaeyeok = 0 /\ cols.cHangmok = 0
  THEN [ok |-> FALSE, reason |-> "no column", rows |-> <<>>]
  ELSE PreviewOf(SelectSeq(
         Collapse(PreviewLoop(SubSeq(rows, headerIdx + 1, Len(rows)), 1, cols, <<>>, <<>>), 1),
         HasData))

\* parseExcelForPreview of the rows of the first sheet
ParsePreview(rows) ==
  IF FindHeaderRow(rows) = 0
  THEN [ok |-> FALSE, reason |-> "no header", rows |-> <<>>]
  ELSE PreviewWithHeader(rows, FindHeaderRow(rows), ColumnsOf(rows[FindHeaderRow(rows)]))

(***************************************************************************)
(* app/page.tsx: the handlers of the main page                             *)
(***************************************************************************)
\* The rows a workbook of the main page is made of, in six columns:
\* 항목 / 사용일자 / 사용내역 / 수량 / 단가 / 금액
PageRowNames == {"hdr", "hdrq", "pshoes", "pzero", "ptotal", "pgrand", "pcat"}

PageRowCells(n) ==
  CASE n = "hdr" ->      \* 항목 | 사용일자 | 사용내역 | 수량 | 단가 | 금액
         <<TextCell(<<"hang", "mok">>), TextCell(<<"sa", "yong", "il", "ja">>),
           TextCell(<<"sa", "yong", "nae", "yeok">>), TextCell(<<"su", "ryang">>),
           TextCell(<<"dan", "ga">>), TextCell(<<"geum", "aek">>)>>
    [] n = "hdrq" ->     \* 구분 | 일자 | 품명 | | 단가 | 금액: no quantity column
         <<TextCell(<<"gu", "bun">>), TextCell(<<"il", "ja">>),
           TextCell(<<"pum", "myeong">>), EmptyCell,
           TextCell(<<"dan", "ga">>), TextCell(<<"geum", "aek">>)>>
    [] n = "pshoes" ->   \* 안전시설 | 45000 | 안전화 | "1,234" | 500 | 617000
         <<TextCell(<<"an", "jeon", "si", "seol">>), NumCell(Int2Num(45000)),
           TextCell(<<"an", "jeon", "hwa">>), TextCell(<<"1", ",", "2", "3", "4">>),
           NumCell(Int2Num(500)), NumCell(Int2Num(617000))>>
    [] n = "pzero" ->    \* | "25.12.22" | 표지판 | "0" | 2 | 0
         <<EmptyCell, TextCell(<<"2", "5", ".", "1", "2", ".", "2", "2">>),
           TextCell(<<"pyo", "ji", "pan">>), TextCell(<<"0">>),
           NumCell(Int2Num(2)), NumCell(Int2Num(0))>>
    [] n = "ptotal" ->   \* | | 합계 | 12 | | 5000
         <<EmptyCell, EmptyCell, TextCell(<<"hap", "gye">>), NumCell(Int2Num(12)),
           EmptyCell, NumCell(Int2Num(5000))>>
    [] n = "pgrand" ->   \* | | 총계 | 12 | | 5000
         <<EmptyCell, EmptyCell, TextCell(<<"chong", "gye">>), NumCell(Int2Num(12)),
           EmptyCell, NumCell(Int2Num(5000))>>
    [] n = "pcat" ->     \* 개인보호구 | | | | |
         <<TextCell(<<"gae", "in", "bo", "ho", "gu">>), EmptyCell, EmptyCell, EmptyCell,
           EmptyCell, EmptyCell>>

\* a workbook of the main page holds at most MaxPageRows rows
MaxPageRows == 3

\* String(used_at).slice(0, 10), "" for null
Slice10(s) == IF Len(s) <= 10 THEN s ELSE SubSeq(s, 1, 10)

\* `${item_name}|${u}|${qty}`
ContentKey(item_name, u, qty) ==
  item_name \o <<"|">> \o Slice10(u) \o <<"|">>
  \o (IF qty = NullN THEN <<"n", "u", "l", "l">> ELSE NumToText(qty))

\* the largest evidence_no of the rows, 0 when there is none
MaxEvidenceNo(existing) ==
  IF existing = {} THEN 0
  ELSE CHOOSE n \in {t.evidence_no.m : t \in existing} \cup {0} :
         \A t \in existing : t.evidence_no.m <= n

\* the detail rows whose content key is neither in the document nor earlier
\* in the preview
RECURSIVE ToInsert(_, _)
ToInsert(detailRows, existingKeys) ==
  IF detailRows = <<>> THEN <<>>
  ELSE IF ContentKey(Head(detailRows).item_name, ToDateForDb(Head(detailRows).used_at),
                     Head(detailRows).qty) \in existingKeys
       THEN ToInsert(Tail(detailRows), existingKeys)
       ELSE <<Head(detailRows)>>
            \o ToInsert(Tail(detailRows),
                 existingKeys \cup {ContentKey(Head(detailRows).item_name,
                                               ToDateForDb(Head(detailRows).used_at),
                                               Head(detailRows).qty)})

\* insertPayload: the rows to insert, numbered from maxEvidenceNo + 1, with
\* the ids the database gives them
InsertPayload(toInsert, d, maxEvidenceNo, nid) ==
  {[id |-> nid + i - 1, doc_id |-> d, category_key |-> NullKey, category_no |-> NullN,
    evidence_no |-> Int2Num(maxEvidenceNo + i),
    used_at |-> ToDateForDb(toInsert[i].used_at), item_name |-> toInsert[i].item_name,
    qty |-> toInsert[i].qty, unit_price |-> toInsert[i].unit_price,
    amount |-> toInsert[i].amount] : i \in 1..Len(toInsert)}

\* the rows sheet_to_json delivers for a workbook of the main page
PageRowsOf(w) == [i \in 1..Len(w) |-> PageRowCells(w[i])]

\* parseExcelForPreview(file): without a document nothing but a message; a
\* file XLSX cannot read, a sheet with no header, no column or no detail row
\* leaves the preview empty; otherwise the preview is shown.  The parse reads
\* nothing but the file: wbPreview holds its result from the moment the
\* workbook is chosen.
ParseExcelForPreview ==
  /\ UNCHANGED <<wb, wbBatch, expense_items, nextId, upsertRows, wbPreview, doc, uploadVars, exportVars, docVars, call, viewVars>>
  /\ itemsBefore' = expense_items
  /\ IF doc = NoDoc
     THEN /\ log' = Logged("parse", doc, "no doc")
          /\ UNCHANGED excelPreview
     ELSE \E readOk \in BOOLEAN :
            IF readOk /\ wbPreview.ok
            THEN /\ excelPreview' = [set |-> TRUE, rows |-> wbPreview.rows]
                 /\ log' = Logged("parse", doc, "ok")
            ELSE /\ excelPreview' = NullPreview
                 /\ log' = Logged("parse", doc, IF readOk THEN wbPreview.reason ELSE "throw")

\* the existing rows saveExcelPreviewToDb selects: the error of the select is
\* not looked at, a failed select reads as no rows
ExistingOf(selOk) == IF selOk THEN ItemsOf(expense_items, doc) ELSE {}

\* the rows saveExcelPreviewToDb decides to insert
SaveToInsert(existing) ==
  ToInsert(SelectSeq(excelPreview.rows, LAMBDA p : p.isDetail),
           {ContentKey(t.item_name, t.used_at, t.qty) : t \in existing})

\* saveExcelPreviewToDb: returns at once without a document, a preview or a
\* detail row; reports duplicates when nothing is left to insert; otherwise
\* inserts, clears the preview and reports
SaveExcelPreviewToDb ==
  /\ doc # NoDoc
  /\ excelPreview.set
  /\ \E i \in 1..Len(excelPreview.rows) : excelPreview.rows[i].isDetail
  /\ itemsBefore' = expense_items
  /\ UNCHANGED <<wb, wbBatch, upsertRows, wbPreview, doc, uploadVars, exportVars, docVars, call, viewVars>>
  /\ \E selOk \in BOOLEAN :
       /\ nextId + Len(SaveToInsert(ExistingOf(selOk))) - 1 <= MaxIds
       /\ IF SaveToInsert(ExistingOf(selOk)) = <<>>
          THEN /\ log' = Logged("save", doc, "duplicates")
               /\ UNCHANGED <<expense_items, nextId, excelPreview>>
          ELSE \E dbOk \in BOOLEAN :
                 IF dbOk
                 THEN /\ expense_items' = expense_items \cup
                           InsertPayload(SaveToInsert(ExistingOf(selOk)), doc,
                                         MaxEvidenceNo(ExistingOf(selOk)), nextId)
                      /\ nextId' = nextId + Len(SaveToInsert(ExistingOf(selOk)))
                      /\ excelPreview' = NullPreview
                      /\ log' = Logged("save", doc, "ok")
                 ELSE /\ log' = Logged("save", doc, "error")
                      /\ UNCHANGED <<expense_items, nextId, excelPreview>>

\* the 취소 button of the preview
CancelPreview ==
  /\ excelPreview.set
  /\ excelPreview' = NullPreview
  /\ log' = Logged("cancel", doc, "")
  /\ itemsBefore' = expense_items
  /\ UNCHANGED <<wb, wbBatch, expense_items, nextId, upsertRows, wbPreview, doc, uploadVars, exportVars, docVars, call, viewVars>>

\* deleteAllItems, confirmed: delete the items of the document
DeleteAllItems ==
  /\ doc # NoDoc
  /\ itemsBefore' = expense_items
  /\ UNCHANGED <<wb, wbBatch, nextId, upsertRows, pageVars, uploadVars, exportVars, docVars, call, viewVars>>
  /\ \E dbOk \in BOOLEAN :
       IF dbOk
       THEN /\ expense_items' = expense_items \ ItemsOf(expense_items, doc)
            /\ log' = Logged("delete", doc, "ok")
       ELSE /\ log' = Logged("delete", doc, "error")
            /\ UNCHANGED expense_items

InitPage ==
  /\ wb \in SeqsUpTo(PageRowNames, MaxPageRows)
  /\ wbPreview = ParsePreview(PageRowsOf(wb))
  /\ excelPreview = NullPreview
  /\ doc \in {"d1", NoDoc}
  /\ wbBatch = <<>>
  /\ expense_items = {}
  /\ nextId = 1
  /\ upsertRows = <<>>
  /\ log = NoOp
  /\ itemsBefore = {}
  /\ UploadIdle
  /\ ExportIdle
  /\ DocsIdle
  /\ ViewIdle

NextPage ==
  \/ ParseExcelForPreview
  \/ SaveExcelPreviewToDb
  \/ CancelPreview
  \/ DeleteAllItems

SpecPage == InitPage /\ [][NextPage]_vars

(***************************************************************************)
(* saveExcelPreviewToDb in two browser tabs on one document: each tab      *)
(* shows the preview of the same file; a save moves at its awaits, the     *)
(* select of the existing rows and the insert.                             *)
(***************************************************************************)
\* the detail rows of the preview
PreviewDetails == SelectSeq(excelPreview.rows, LAMBDA p : p.isDetail)

\* the rows the save of a tab decides to insert, from the rows it selected
TabToInsert(t) ==
  ToInsert(PreviewDetails,
           {ContentKey(x.item_name, x.used_at, x.qty) : x \in tabs[t].existing})

\* the select of the existing rows of the document answers (its error is
\* not looked at: a failed select reads as no rows)
TabSelect(t) ==
  /\ tabs[t].pc = "preview"
  /\ \E selOk \in BOOLEAN :
       tabs' = [tabs EXCEPT ![t] =
                  [pc |-> "selected", selOk |-> selOk,
                   existing |-> IF selOk THEN ItemsOf(expense_items, doc) ELSE {}]]
  /\ UNCHANGED <<importVars, pageVars, uploadVars, exportVars, docVars, call, combo, view>>

\* the rest of the save: nothing to insert is reported as duplicates and the
\* preview stays; otherwise the rows are inserted with the numbers that
\* follow the largest number selected, and the preview is cleared
TabInsert(t) ==
  /\ tabs[t].pc = "selected"
  /\ nextId + Len(TabToInsert(t)) - 1 <= MaxIds
  /\ itemsBefore' = expense_items
  /\ UNCHANGED <<wb, wbBatch, upsertRows, pageVars, uploadVars, exportVars, docVars, call, combo, view>>
  /\ IF TabToInsert(t) = <<>>
     THEN /\ log' = Logged("save", doc, "duplicates")
          /\ tabs' = [tabs EXCEPT ![t].pc = "preview"]
          /\ UNCHANGED <<expense_items, nextId>>
     ELSE \E dbOk \in BOOLEAN :
            IF dbOk
            THEN /\ expense_items' = expense_items \cup
                      InsertPayload(TabToInsert(t), doc,
                                    MaxEvidenceNo(tabs[t].existing), nextId)
                 /\ nextId' = nextId + Len(TabToInsert(t))
                 /\ tabs' = [tabs EXCEPT ![t].pc = "saved"]
                 /\ log' = Logged("save", doc, "ok")
            ELSE /\ log' = Logged("save", doc, "error")
                 /\ tabs' = [tabs EXCEPT ![t].pc = "preview"]
                 /\ UNCHANGED <<expense_items, nextId>>

\* the file is chosen again in a tab that has saved
TabParse(t) ==
  /\ tabs[t].pc = "saved"
  /\ tabs' = [tabs EXCEPT ![t].pc = "preview"]
  /\ UNCHANGED <<importVars, pageVars, uploadVars, exportVars, docVars, call, combo, view>>

\* both tabs show the preview of one file with a detail row, on d1
InitTabs ==
  /\ wb \in SeqsUpTo(PageRowNames, MaxPageRows)
  /\ wbPreview = ParsePreview(PageRowsOf(wb))
  /\ wbPreview.ok
  /\ excelPreview = [set |-> TRUE, rows |-> wbPreview.rows]
  /\ PreviewDetails # <<>>
  /\ doc = "d1"
  /\ wbBatch = <<>>
  /\ expense_items = {}
  /\ nextId = 1
  /\ upsertRows = <<>>
  /\ log = NoOp
  /\ itemsBefore = {}
  /\ UploadIdle
  /\ ExportIdle
  /\ DocsIdle
  /\ combo = NoCombo
  /\ view = NoView
  /\ tabs = [t \in Tabs |-> [pc |-> "preview", existing |-> {}, selOk |-> TRUE]]

NextTabs ==
  \E t \in Tabs :
    \/ TabSelect(t)
    \/ TabInsert(t)
    \/ TabParse(t)

SpecTabs == InitTabs /\ [][NextTabs]_vars

(***************************************************************************)
(* app/api/photos/upload/route.ts: POST, in its two versions.  Version A   *)
(* upserts the record on item_id,kind,slot_index; version B reads the      *)
(* record of the slot and then updates or inserts.  A request is a process *)
(* that moves at its awaits: the read (B), the storage upload, the write.  *)
(***************************************************************************)
MAX_BYTES == 10485760

\* the files of the requests: [present, type, name, size]
UploadFile(f) ==
  CASE f = "png" ->
         [present |-> TRUE, type |-> <<"i", "m", "a", "g", "e", "/", "p", "n", "g">>,
          name |-> <<"a", ".", "p", "n", "g">>, size |-> 1000]
    [] f = "jpeg" ->
         [present |-> TRUE, type |-> <<"i", "m", "a", "g", "e", "/", "j", "p", "e", "g">>,
          name |-> <<"b", " ", "1", ".", "j", "p", "g">>, size |-> 1000]
    [] f = "pdf" ->     \* not an image, and larger than MAX_BYTES
         [present |-> TRUE,
          type |-> <<"a", "p", "p", "l", "i", "c", "a", "t", "i", "o", "n", "/", "p", "d", "f">>,
          name |-> <<"c", ".", "p", "d", "f">>, size |-> MAX_BYTES + 1]
    [] f = "none" ->
         [present |-> FALSE, type |-> <<>>, name |-> <<>>, size |-> 0]

\* the form fields a client can send: every kind, slot and file for the
\* item, and a request without docId and one without itemId
UploadInputs ==
  [docId : {"d1"}, itemId : {"i1"},
   kind : {"inbound", "install", "issue_install"},
   slot : {<<>>, <<"0">>, <<"1">>, <<"1", ".", "5">>, <<"4">>},
   file : {"none", "png", "jpeg", "pdf"}]
  \cup {[docId |-> "", itemId |-> "i1", kind |-> "inbound", slot |-> <<"0">>, file |-> "png"],
        [docId |-> "d1", itemId |-> "", kind |-> "inbound", slot |-> <<"0">>, file |-> "png"]}

\* version A with the size of the file checked after the upload only
RejectALate(in) ==
  IF in.docId = "" THEN "docId"
  ELSE IF in.itemId = "" THEN "itemId"
  ELSE IF in.kind \notin {"inbound", "install"} THEN "kind"
  ELSE IF Trim(in.slot) = <<>> THEN "slotIndex missing"
  ELSE IF IsNaN(JsNumber(Trim(in.slot))) \/ ~NumIsInteger(JsNumber(Trim(in.slot)))
       THEN "slotIndex not an integer"
  ELSE IF ~UploadFile(in.file).present THEN "file"
  ELSE IF JsNumber(Trim(in.slot)).m < 0 \/ NumLt(Int2Num(3), JsNumber(Trim(in.slot)))
       THEN "slotIndex range"
  ELSE ""

\* version A, the checks before the first write, in their order: "" when the
\* request passes them all
RejectA(in) ==
  IF in.docId = "" THEN "docId"
  ELSE IF in.itemId = "" THEN "itemId"
  ELSE IF in.kind \notin {"inbound", "install"} THEN "kind"
  ELSE IF Trim(in.slot) = <<>> THEN "slotIndex missing"
  ELSE IF IsNaN(JsNumber(Trim(in.slot))) \/ ~NumIsInteger(JsNumber(Trim(in.slot)))
       THEN "slotIndex not an integer"
  ELSE IF ~UploadFile(in.file).present THEN "file"
  ELSE IF JsNumber(Trim(in.slot)).m < 0 \/ NumLt(Int2Num(3), JsNumber(Trim(in.slot)))
       THEN "slotIndex range"
  ELSE IF UploadFile(in.file).size > MAX_BYTES THEN "size"
  ELSE ""

\* version B, the checks before the first read
RejectB(in) ==
  IF in.itemId = "" \/ in.kind = "" \/ in.slot = <<>> \/ ~UploadFile(in.file).present
  THEN "required"
  ELSE IF in.kind \notin {"inbound", "issue_install"} THEN "kind"
  ELSE IF IsNaN(JsNumber(in.slot)) \/ JsNumber(in.slot).m < 0
          \/ NumLt(Int2Num(3), JsNumber(in.slot))
       THEN "slot range"
  ELSE IF in.kind = "inbound" /\ JsNumber(in.slot) # Int2Num(0) THEN "inbound slot"
  ELSE IF SubSeq(UploadFile(in.file).type, 1, 6) # <<"i", "m", "a", "g", "e", "/">>
       THEN "not an image"
  ELSE ""

\* version A: the extension, from the content type
ExtOfContentType(contentType) ==
  IF Includes(contentType, <<"p", "n", "g">>) THEN <<"p", "n", "g">>
  ELSE IF Includes(contentType, <<"j", "p", "e", "g">>) THEN <<"j", "p", "g">>
  ELSE IF Includes(contentType, <<"w", "e", "b", "p">>) THEN <<"w", "e", "b", "p">>
  ELSE <<"b", "i", "n">>

\* the characters [a-z0-9] keeps
AlphaNum ==
  Digits \cup {"a", "b", "c", "d", "e", "f", "g", "h", "i", "j", "k", "l", "m", "n", "o",
               "p", "q", "r", "s", "t", "u", "v", "w", "x", "y", "z"}

\* version B: the extension, from the file name: what follows the last
\* point, in lower case, its first eight characters of [a-z0-9], or jpg
SafeExt(name) ==
  LET kept == SelectSeq(ToLower(SplitAt(name, {"."})[Len(SplitAt(name, {"."}))]),
                        LAMBDA c : c \in AlphaNum)
  IN  IF Len(SplitAt(name, {"."})) < 2 \/ kept = <<>> THEN <<"j", "p", "g">>
      ELSE IF Len(kept) <= 8 THEN kept ELSE SubSeq(kept, 1, 8)

\* the storage path of a request:
\* A docs/{docId}/items/{itemId}/{kind}/slot-{slotIndex}.{ext}
\* B expense_items/{expenseItemId}/{kind}/{slot}.{safeExt}
StoragePath(r) ==
  IF variant = "A"
  THEN [root |-> "docs", doc |-> r.docId, item |-> r.itemId, kind |-> r.kind,
        slot |-> r.slot, ext |-> ExtOfContentType(UploadFile(r.file).type)]
  ELSE [root |-> "expense_items", doc |-> "", item |-> r.itemId, kind |-> r.kind,
        slot |-> r.slot, ext |-> SafeExt(UploadFile(r.file).name)]

\* the bucket a version writes to
UploadBucket == IF variant = "A" THEN "expense-photos" ELSE "expense-evidence"

\* an upload that clears the slot first: the objects of the item, kind and
\* slot of the path are removed, whatever their extension
StorageUploadClearsSlot(objects, bucket, path, file) ==
  {o \in objects : ~(/\ o.bucket = bucket /\ o.path.item = path.item
                     /\ o.path.kind = path.kind /\ o.path.slot = path.slot)}
  \cup {[bucket |-> bucket, path |-> path, file |-> file]}

\* storage.from(bucket).upload(path, file, {upsert: true})
StorageUpload(objects, bucket, path, file) ==
  {o \in objects : ~(o.bucket = bucket /\ o.path = path)}
  \cup {[bucket |-> bucket, path |-> path, file |-> file]}

\* the records of the slot of a request
SlotRows(r) ==
  {p \in expense_item_photos :
     p.item_id = r.itemId /\ p.kind = r.kind /\ p.slot_index = r.slot}

\* the record a request writes, with the id the table gives or keeps
PhotoRow(r, id) ==
  [id |-> id, doc_id |-> r.docId, item_id |-> r.itemId, kind |-> r.kind,
   slot_index |-> r.slot, storage_path |-> StoragePath(r)]

\* the request ends with this response
Respond(k, result) ==
  /\ reqs' = [reqs EXCEPT ![k] = [NoReq EXCEPT !.pc = "done", !.result = result]]
  /\ log' = Logged("upload", "", result)

\* the id the table gives the next inserted record (no record is deleted)
NextPhotoId == Cardinality(expense_item_photos) + 1

\* POST arrives and runs its checks: a rejected request ends here, an
\* accepted one goes on to its first await on the database or the storage
ReceiveUpload(k, in) ==
  /\ reqs[k].pc = "idle"
  /\ IF k = 1 THEN TRUE ELSE reqs[k - 1].pc # "idle"
  /\ UNCHANGED <<itemVars, pageVars, exportVars, docVars, call, variant, uniqueSlot, expense_item_photos, storage, viewVars>>
  /\ IF (IF variant = "A" THEN RejectA(in) ELSE RejectB(in)) # ""
     THEN /\ log' = Logged("upload", "", "rejected")
          /\ UNCHANGED reqs
     ELSE /\ log' = Logged("upload", "", "accepted")
          /\ reqs' = [reqs EXCEPT ![k] =
               [pc |-> IF variant = "A" THEN "upload" ELSE "select",
                docId |-> IF variant = "A" THEN in.docId ELSE "",
                itemId |-> in.itemId, kind |-> in.kind, slot |-> JsNumber(in.slot),
                file |-> in.file, existing |-> 0, result |-> ""]]

\* version B, steps 3 and 4: the record of the slot is read (maybeSingle: more
\* than one row is an error) and, for a new issue_install slot, the records
\* of the item are counted; the two reads are taken as one step
SelectExisting(k) ==
  /\ reqs[k].pc = "select"
  /\ UNCHANGED <<itemVars, pageVars, exportVars, docVars, call, variant, uniqueSlot, expense_item_photos, storage, viewVars>>
  /\ \E selOk \in BOOLEAN :
       IF ~selOk \/ Cardinality(SlotRows(reqs[k])) > 1
       THEN Respond(k, "error")
       ELSE IF /\ reqs[k].kind = "issue_install"
               /\ SlotRows(reqs[k]) = {}
               /\ Cardinality({p \in expense_item_photos :
                                 p.item_id = reqs[k].itemId /\ p.kind = "issue_install"}) >= 4
       THEN Respond(k, "rejected")
       ELSE /\ reqs' = [reqs EXCEPT ![k].pc = "upload",
                                    ![k].existing =
                                      IF SlotRows(reqs[k]) = {} THEN 0
                                      ELSE (CHOOSE p \in SlotRows(reqs[k]) : TRUE).id]
            /\ UNCHANGED log

\* both versions: the file is put at the path of the request
UploadObject(k) ==
  /\ reqs[k].pc = "upload"
  /\ UNCHANGED <<itemVars, pageVars, exportVars, docVars, call, variant, uniqueSlot, expense_item_photos, viewVars>>
  /\ \E upOk \in BOOLEAN :
       IF upOk
       THEN /\ storage' = StorageUpload(storage, UploadBucket, StoragePath(reqs[k]),
                                        reqs[k].file)
            /\ reqs' = [reqs EXCEPT ![k].pc = "write"]
            /\ UNCHANGED log
       ELSE /\ UNCHANGED storage
            /\ Respond(k, "error")

\* version A: upsert on item_id,kind,slot_index, then the signed URL of the
\* response
UpsertPhoto(k) ==
  /\ variant = "A"
  /\ reqs[k].pc = "write"
  /\ UNCHANGED <<itemVars, pageVars, exportVars, docVars, call, variant, uniqueSlot, storage, viewVars>>
  /\ \E dbOk \in BOOLEAN, signOk \in BOOLEAN :
       IF dbOk
       THEN /\ expense_item_photos' =
                 IF SlotRows(reqs[k]) = {}
                 THEN expense_item_photos \cup {PhotoRow(reqs[k], NextPhotoId)}
                 ELSE (expense_item_photos \ SlotRows(reqs[k]))
                      \cup {PhotoRow(reqs[k], p.id) : p \in SlotRows(reqs[k])}
            /\ Respond(k, IF signOk THEN "ok" ELSE "error")
       ELSE /\ UNCHANGED expense_item_photos
            /\ Respond(k, "error")

\* version B: update of the record that was read, or insert of a new one
WritePhoto(k) ==
  /\ variant = "B"
  /\ reqs[k].pc = "write"
  /\ UNCHANGED <<itemVars, pageVars, exportVars, docVars, call, variant, uniqueSlot, storage, viewVars>>
  /\ \E dbOk \in BOOLEAN :
       IF dbOk /\ reqs[k].existing # 0
       THEN /\ expense_item_photos' =
                 {IF p.id = reqs[k].existing THEN PhotoRow(reqs[k], p.id) ELSE p :
                    p \in expense_item_photos}
            /\ Respond(k, "ok")
       ELSE IF dbOk /\ ~(uniqueSlot /\ SlotRows(reqs[k]) # {})
       THEN /\ expense_item_photos' = expense_item_photos \cup {PhotoRow(reqs[k], NextPhotoId)}
            /\ Respond(k, "ok")
       ELSE /\ UNCHANGED expense_item_photos
            /\ Respond(k, "error")

InitUpload ==
  /\ variant \in {"A", "B"}
  /\ uniqueSlot \in (IF variant = "A" THEN {TRUE} ELSE BOOLEAN)
  /\ expense_item_photos = {}
  /\ storage = {}
  /\ reqs = [k \in 1..MaxUploads |-> NoReq]
  /\ wb = <<>>
  /\ wbBatch = <<>>
  /\ expense_items = {}
  /\ nextId = 1
  /\ upsertRows = <<>>
  /\ log = NoOp
  /\ itemsBefore = {}
  /\ PageIdle
  /\ ExportIdle
  /\ DocsIdle
  /\ ViewIdle

NextUpload ==
  \E k \in 1..MaxUploads :
    \/ \E in \in UploadInputs : ReceiveUpload(k, in)
    \/ SelectExisting(k)
    \/ UploadObject(k)
    \/ UpsertPhoto(k)
    \/ WritePhoto(k)

SpecUpload == InitUpload /\ [][NextUpload]_vars

(***************************************************************************)
(* GET /expense/export?docId=                                              *)
(***************************************************************************)
BUCKET == "expense-evidence"
BUCKET_FALLBACK == "expense-photos"

\* a cell range of a photo sheet: "B6:E15" is Range(2, 6, 5, 15)
Range(c1, r1, c2, r2) == [c1 |-> c1, r1 |-> r1, c2 |-> c2, r2 |-> r2]

\* getInboundRanges without its cases: the 2x2 grid whatever the count
GetInboundRangesGrid(count) ==
  <<Range(2, 6, 3, 10), Range(4, 6, 5, 10), Range(2, 11, 3, 15), Range(4, 11, 5, 15)>>

GetInboundRanges(count) ==
  IF count <= 1 THEN <<Range(2, 6, 5, 15)>>
  ELSE IF count = 2 THEN <<Range(2, 6, 3, 15), Range(4, 6, 5, 15)>>
  ELSE IF count = 3 THEN <<Range(2, 6, 5, 10), Range(2, 11, 3, 15), Range(4, 11, 5, 15)>>
  ELSE <<Range(2, 6, 3, 10), Range(4, 6, 5, 10), Range(2, 11, 3, 15), Range(4, 11, 5, 15)>>

GetInstallRanges(count) ==
  IF count <= 1 THEN <<Range(6, 6, 9, 15)>>
  ELSE IF count = 2 THEN <<Range(6, 6, 7, 15), Range(8, 6, 9, 15)>>
  ELSE IF count = 3 THEN <<Range(6, 6, 9, 10), Range(6, 11, 7, 15), Range(8, 11, 9, 15)>>
  ELSE <<Range(6, 6, 7, 10), Range(8, 6, 9, 10), Range(6, 11, 7, 15), Range(8, 11, 9, 15)>>

\* select ... .order(column), for the bag of the selected rows: the rows in
\* an order in which the column never falls; rows that agree on the column
\* come in any order
RECURSIVE Ordered(_, _)
Ordered(B, column) ==
  IF BagToSet(B) = {} THEN {<<>>}
  ELSE UNION {{<<p>> \o t : t \in Ordered(B (-) SetToBag({p}), column)} :
                p \in {x \in BagToSet(B) :
                         \A y \in BagToSet(B) : ~NumLt(y[column], x[column])}}

\* applyPhotosToRanges: photos.slice(0, ranges.length), the i-th of them for
\* the i-th range
ApplyPhotosToRanges(item, kind, photos, ranges) ==
  [i \in 1..(IF Len(photos) < Len(ranges) THEN Len(photos) ELSE Len(ranges)) |->
     [item |-> item, kind |-> kind, range |-> ranges[i], path |-> photos[i].storage_path]]

\* Math.min(photos.length, 4)
Min4(n) == IF n < 4 THEN n ELSE 4

\* the fetches and placements of one item: its inbound photos, then its
\* install photos
PhotoQueue(item, inboundPhotos, installPhotos) ==
  ApplyPhotosToRanges(item, "inbound", inboundPhotos, GetInboundRanges(Min4(Len(inboundPhotos))))
  \o ApplyPhotosToRanges(item, "install", installPhotos, GetInstallRanges(Min4(Len(installPhotos))))

\* select("kind, slot_index, storage_path").eq("item_id", item), filtered
\* by kind: a bag of rows of these three columns
PhotosOfKind(item, kind) ==
  LET hit == {p \in expense_item_photos : p.item_id = item /\ p.kind = kind}
      Columns(p) == [kind |-> p.kind, slot_index |-> p.slot_index,
                     storage_path |-> p.storage_path]
  IN  [row \in {Columns(p) : p \in hit} |-> Cardinality({p \in hit : Columns(p) = row})]

\* the bucket holds an object under the path
ObjectIn(bucket, path) == \E o \in storage : o.bucket = bucket /\ o.path = path

\* storage.from(bucket).download(path): the file of the object when the
\* download succeeds
Downloaded(bucket, path, ok) ==
  IF ok THEN (CHOOSE o \in storage : o.bucket = bucket /\ o.path = path).file ELSE "none"

\* fetchImageBuffer starts with the primary bucket: no fetch was made yet, or
\* the last one gave the image of the photo before
PrimaryDue(att) == IF att = <<>> THEN TRUE ELSE att[Len(att)].ok

\* a fetchImageBuffer that goes on to the fallback bucket whatever the
\* primary bucket gave
FallbackDueAlways(att) == Len(att) = 1

\* the catch of fetchImageBuffer: the fetch from the primary bucket threw
FallbackDue(att) == IF Len(att) = 1 THEN ~att[1].ok ELSE FALSE

\* a loop that stops one item short
LoopDoneEarly(e) == e.idx >= Len(e.items)

\* the loop over the items has passed the last item
LoopDone(e) == e.idx > Len(e.items)

\* Number(it.category_no ?? 0)
CategoryOf(it) == IF it.category_no = NullN THEN 0 ELSE it.category_no.m

\* rowStartMap[cat], 0 for a category the map does not have
RowStart(cat) ==
  CASE cat = 2 -> 8
    [] cat = 3 -> 20
    [] cat = 9 -> 60
    [] OTHER -> 0

\* the lines of the first sheet: byCat keeps the items of a category in the
\* order of the select, and the item at index idx of category cat is written
\* into row rowStartMap[cat] + idx; a category without a start row is passed
\* over.  [row, id] for each line written
FirstSheetCells(items) ==
  {[row |-> RowStart(CategoryOf(items[i]))
            + Cardinality({j \in 1..(i - 1) : CategoryOf(items[j]) = CategoryOf(items[i])}),
    id |-> items[i].id] :
     i \in {k \in 1..Len(items) : RowStart(CategoryOf(items[k])) # 0}}

\* `NO.${evNo || "미정"}`
SheetName(it) ==
  <<"NO.">> \o (IF it.evidence_no = NullN \/ it.evidence_no = Int2Num(0)
                THEN <<"mi", "jeong">> ELSE NumToText(it.evidence_no))

\* wb.getWorksheet(name), for the sheets the loop has added
NameTaken(sheets, name) == \E i \in 1..Len(sheets) : sheets[i] = name

\* it.id.slice(0, 6)
Slice6(id) == IF Len(id) <= 6 THEN id ELSE SubSeq(id, 1, 6)

\* the name of the photo sheet of an item: the sheet name or, when the
\* workbook has a sheet of that name, the name with "_" and the first six
\* characters of the id
FinalName(sheets, it) ==
  IF NameTaken(sheets, SheetName(it))
  THEN SheetName(it) \o <<"_">> \o Slice6(it.id)
  ELSE SheetName(it)

\* the request after the image at e.pos is placed: the next photo of the
\* item, or the next item
AfterPlaced(e) ==
  IF e.pos < Len(e.queue) THEN [e EXCEPT !.pos = e.pos + 1]
  ELSE [e EXCEPT !.pc = "item", !.idx = e.idx + 1, !.queue = <<>>, !.pos = 0]

\* the request ends with a JSON error and no workbook
ExportFails ==
  /\ exp' = [exp EXCEPT !.pc = "done"]
  /\ response' = "error"
  /\ log' = Logged("export", "", "error")

\* GET up to the loop over the items: the docId check, the document and item
\* selects, the template, the lines of the first sheet and the photo sheet of
\* the template
ExportGet(d) ==
  /\ exp.pc = "idle"
  /\ \E ok \in BOOLEAN, items \in Ordered(SetToBag(ItemsOf(expense_items, d)), "evidence_no") :
       IF d = "" \/ ~ok
       THEN /\ ExportFails
            /\ UNCHANGED book
       ELSE /\ exp' = [exp EXCEPT !.pc = "item", !.idx = 1,
                                  !.items = [i \in 1..Len(items) |-> items[i].id]]
            /\ book' = [items |-> items, cells |-> FirstSheetCells(items), sheets |-> <<>>]
            /\ log' = Logged("export", d, "")
            /\ UNCHANGED response
  /\ UNCHANGED <<attempts, placed>>
  /\ UNCHANGED <<itemVars, pageVars, uploadVars, docVars, call, viewVars>>

\* one turn of the loop up to its first fetch: the photo sheet of the item
\* and the select of its photos.  addWorksheet with a name the workbook
\* already has is left to the library: it throws, or it adds a second sheet
\* of that name.
ExportItem ==
  /\ exp.pc = "item"
  /\ ~LoopDone(exp)
  /\ \E ok \in BOOLEAN, thrown \in BOOLEAN,
        inboundPhotos \in Ordered(PhotosOfKind(exp.items[exp.idx], "inbound"), "slot_index"),
        installPhotos \in Ordered(PhotosOfKind(exp.items[exp.idx], "install"), "slot_index") :
       IF thrown /\ NameTaken(book.sheets, FinalName(book.sheets, book.items[exp.idx]))
       THEN /\ ExportFails
            /\ UNCHANGED book
       ELSE IF ~ok
       THEN /\ ExportFails
            /\ book' = [book EXCEPT !.sheets =
                          Append(book.sheets, FinalName(book.sheets, book.items[exp.idx]))]
       ELSE /\ book' = [book EXCEPT !.sheets =
                          Append(book.sheets, FinalName(book.sheets, book.items[exp.idx]))]
            /\ exp' =
                 IF PhotoQueue(exp.items[exp.idx], inboundPhotos, installPhotos) = <<>>
                 THEN [exp EXCEPT !.idx = exp.idx + 1]
                 ELSE [exp EXCEPT !.pc = "fetch", !.pos = 1,
                         !.queue = PhotoQueue(exp.items[exp.idx], inboundPhotos, installPhotos)]
            /\ UNCHANGED <<response, log>>
  /\ UNCHANGED <<attempts, placed>>
  /\ UNCHANGED <<itemVars, pageVars, uploadVars, docVars, call, viewVars>>

\* fetchImageBufferFromBucket(BUCKET, path) and, if it returns, addImageToRange
FetchPrimary ==
  /\ exp.pc = "fetch"
  /\ PrimaryDue(attempts)
  /\ \E ok \in {FALSE} \cup {ObjectIn(BUCKET, exp.queue[exp.pos].path)} :
       /\ attempts' = <<[path |-> exp.queue[exp.pos].path, bucket |-> BUCKET, ok |-> ok,
                         file |-> Downloaded(BUCKET, exp.queue[exp.pos].path, ok)]>>
       /\ IF ok
          THEN /\ placed' = placed \cup {exp.queue[exp.pos]}
               /\ exp' = AfterPlaced(exp)
          ELSE UNCHANGED <<placed, exp>>
  /\ UNCHANGED <<response, log, book>>
  /\ UNCHANGED <<itemVars, pageVars, uploadVars, docVars, call, viewVars>>

\* fetchImageBufferFromBucket(BUCKET_FALLBACK, path) and, if it returns,
\* addImageToRange; if it throws, the catch of GET answers
FetchFallback ==
  /\ exp.pc = "fetch"
  /\ FallbackDue(attempts)
  /\ \E ok \in {FALSE} \cup {ObjectIn(BUCKET_FALLBACK, exp.queue[exp.pos].path)} :
       /\ attempts' = Append(attempts, [path |-> exp.queue[exp.pos].path,
                                        bucket |-> BUCKET_FALLBACK, ok |-> ok,
                                        file |-> Downloaded(BUCKET_FALLBACK,
                                                            exp.queue[exp.pos].path, ok)])
       /\ IF ok
          THEN /\ placed' = placed \cup {exp.queue[exp.pos]}
               /\ exp' = AfterPlaced(exp)
               /\ UNCHANGED <<response, log>>
          ELSE /\ ExportFails
               /\ UNCHANGED placed
  /\ UNCHANGED book
  /\ UNCHANGED <<itemVars, pageVars, uploadVars, docVars, call, viewVars>>

\* after the loop: writeBuffer and the workbook response
ExportRespond ==
  /\ exp.pc = "item"
  /\ LoopDone(exp)
  /\ \E ok \in BOOLEAN :
       IF ok
       THEN /\ exp' = [exp EXCEPT !.pc = "done"]
            /\ response' = "workbook"
            /\ log' = Logged("export", "", "ok")
       ELSE ExportFails
  /\ UNCHANGED <<attempts, placed, book>>
  /\ UNCHANGED <<itemVars, pageVars, uploadVars, docVars, call, viewVars>>

\* how many photo records an item has of each kind.  Version A writes the
\* kinds inbound and install at the slots 0..3; version B writes inbound at
\* slot 0 only, any number of times where no unique index stops it, and
\* issue_install
PhotoCounts(ids) ==
  IF variant = "A"
  THEN [ids \X {"inbound", "install"} -> 0..4]
  ELSE {f \in [ids \X {"inbound", "issue_install"} -> 0..MaxPhotos] :
          \A i \in ids : f[i, "issue_install"] <= 1}

\* the photo records of the counts, as the uploads of the version leave them
PhotoTable(f) ==
  {PhotoRow([docId |-> "d1", itemId |-> x[1][1], kind |-> x[1][2],
             slot |-> Int2Num(IF variant = "A" THEN x[2] - 1 ELSE 0),
             file |-> IF x[2] % 2 = 1 THEN "png" ELSE "jpeg"],
            100 * x[1][1] + (IF x[1][2] = "inbound" THEN 0 ELSE 50) + x[2]) :
     x \in {y \in (DOMAIN f) \X (1..MaxPhotos) : y[2] <= f[y[1]]}}

\* the document d1 holds the items of an imported workbook
InitExport ==
  /\ wb = <<"cat2", "shoes", "signs">>
  /\ wbBatch = BuildUpsertRows(ImportRowsOf(wb), "d1")
  /\ expense_items = UpsertRows({}, 1, wbBatch).table
  /\ nextId = UpsertRows({}, 1, wbBatch).nextId
  /\ upsertRows = wbBatch
  /\ log = NoOp
  /\ itemsBefore = {}
  /\ PageIdle
  /\ variant \in {"A", "B"}
  /\ uniqueSlot = (variant = "A")
  /\ expense_item_photos \in {PhotoTable(f) : f \in PhotoCounts({t.id : t \in expense_items})}
  /\ storage = {[bucket |-> UploadBucket, path |-> p.storage_path, file |-> "png"] :
                  p \in expense_item_photos}
  /\ reqs = [k \in 1..MaxUploads |-> NoReq]
  /\ ExportIdle
  /\ DocsIdle
  /\ ViewIdle

NextExport ==
  \/ \E d \in {"", "d1"} : ExportGet(d)
  \/ ExportItem
  \/ FetchPrimary
  \/ FetchFallback
  \/ ExportRespond

SpecExport == InitExport /\ [][NextExport]_vars

(***************************************************************************)
(* The date conversions on the way to the database                         *)
(***************************************************************************)
\* the date texts the conversions are called with: three digit fields and
\* two separators, among them 25.12.22, 2025-12-22, 2025.1.5 and 22/25/99
DateInputs ==
  [y : {<<"2", "5">>, <<"7", "0">>, <<"6", "9">>, <<"2", "2">>, <<"2", "0", "2", "5">>},
   s1 : {".", "-", "/"},
   m : {<<"1">>, <<"1", "2">>, <<"2", "5">>},
   s2 : {".", "-", "/"},
   d : {<<"5">>, <<"2", "2">>, <<"9", "9">>}]

\* the text of a date input
DateText(in) == in.y \o <<in.s1>> \o in.m \o <<in.s2>> \o in.d

\* toISODate(v) on a text cell, toDateForDb(s) on a text
CallDate(fn, in) ==
  /\ call' = [fn |-> fn, arg |-> in,
              out |-> IF fn = "toISODate" THEN ToISODate(TextCell(DateText(in)))
                      ELSE ToDateForDb(DateText(in))]
  /\ UNCHANGED <<importVars, pageVars, uploadVars, exportVars, docVars, viewVars>>

InitDates ==
  /\ wb = <<>>
  /\ wbBatch = <<>>
  /\ expense_items = {}
  /\ nextId = 1
  /\ upsertRows = <<>>
  /\ log = NoOp
  /\ itemsBefore = {}
  /\ PageIdle
  /\ UploadIdle
  /\ ExportIdle
  /\ DocsIdle
  /\ ViewIdle

NextDates == \E fn \in {"toISODate", "toDateForDb"}, in \in DateInputs : CallDate(fn, in)

SpecDates == InitDates /\ [][NextDates]_vars

(***************************************************************************)
(* The imports of the pages with a NO column: handleExcelUpload and        *)
(* importExcelToItems                                                      *)
(***************************************************************************)
\* a workbook of these pages holds at most MaxNoRows rows
MaxNoRows == 3

\* The rows of such a workbook, in three columns: NO / 품명 / 수량
NoRowNames == {"nhdr", "nhdrq", "n1", "n1b", "n2", "nn"}

NoRowCells(n) ==
  CASE n = "nhdr" ->     \* NO | 품명 | 수량
         <<TextCell(<<"N", "O">>), TextCell(<<"pum", "myeong">>), TextCell(<<"su", "ryang">>)>>
    [] n = "nhdrq" ->    \* NO | 품명 | : no quantity column
         <<TextCell(<<"N", "O">>), TextCell(<<"pum", "myeong">>), EmptyCell>>
    [] n = "n1" ->       \* 1 | 안전화 | 10
         <<NumCell(Int2Num(1)), TextCell(<<"an", "jeon", "hwa">>), NumCell(Int2Num(10))>>
    [] n = "n1b" ->      \* "1" | 표지판 | 5
         <<TextCell(<<"1">>), TextCell(<<"pyo", "ji", "pan">>), NumCell(Int2Num(5))>>
    [] n = "n2" ->       \* 2 | 표지판 | 7
         <<NumCell(Int2Num(2)), TextCell(<<"pyo", "ji", "pan">>), NumCell(Int2Num(7))>>
    [] n = "nn" ->       \* | 안전모 | 3
         <<EmptyCell, TextCell(<<"an", "jeon", "mo">>), NumCell(Int2Num(3))>>

\* the rows sheet_to_json delivers for such a workbook
NoRowsOf(w) == [i \in 1..Len(w) |-> NoRowCells(w[i])]

\* a record of a payload of these imports
NoRow(d, evidence_no, item_name, qty) ==
  [doc_id |-> d, category_key |-> NullKey, category_no |-> NullN,
   evidence_no |-> evidence_no, used_at |-> NoText, item_name |-> item_name,
   qty |-> IF qty = NullN THEN Int2Num(0) ELSE qty,
   unit_price |-> NullN, amount |-> NullN]

\* insert(batch): every record under the next id
InsertRows(table, nid, batch) ==
  [table |-> table \cup {WithId(batch[i], nid + i - 1) : i \in 1..Len(batch)},
   nextId |-> nid + Len(batch)]

\* the records of a batch that carry an evidence number, and those that do not
WithNo(batch) == SelectSeq(batch, LAMBDA r : r.evidence_no # NullN)
WithoutNo(batch) == SelectSeq(batch, LAMBDA r : r.evidence_no = NullN)

\* header.findIndex of handleExcelUpload: the first header cell that is one
\* of the words (exact, whatever the case) or that contains one, 0 if none
UploadColumn(header, words, exact) ==
  FirstIndex({i \in 1..Len(header) :
                IF exact THEN ToLower(Trim(StringOf(header[i]))) \in words
                ELSE \E w \in words : Includes(Trim(StringOf(header[i])), w)})

\* the payload of handleExcelUpload for the columns found: the rows after the
\* first that have a name; without a NO or a quantity column the number is
\* null and the quantity 0
UploadPayloadOf(rows, d, idxNo, idxName, idxQty) ==
  SelectSeq([i \in 1..(Len(rows) - 1) |->
               NoRow(d, IF idxNo > 0 THEN ToNumber(CellAt(rows[i + 1], idxNo)) ELSE NullN,
                     Trim(StringOf(CellAt(rows[i + 1], idxName))),
                     IF idxQty > 0 THEN ToNumber(CellAt(rows[i + 1], idxQty)) ELSE NullN)],
            LAMBDA r : r.item_name # <<>>)

\* handleExcelUpload up to its writes: the payload, empty where the handler
\* throws (fewer than two rows, no name column, no row with a name)
UploadPayload(rows, d) ==
  IF Len(rows) < 2 THEN <<>>
  ELSE IF UploadColumn(rows[1], {<<"pum", "myeong">>, <<"nae", "yong">>, <<"pum", "mok">>},
                       FALSE) = 0
  THEN <<>>
  ELSE UploadPayloadOf(rows, d,
         UploadColumn(rows[1], {<<"n", "o">>, <<"jeung", "bing", "beon", "ho">>,
                                <<"beon", "ho">>}, TRUE),
         UploadColumn(rows[1], {<<"pum", "myeong">>, <<"nae", "yong">>, <<"pum", "mok">>},
                      FALSE),
         UploadColumn(rows[1], {<<"su", "ryang">>}, FALSE))

\* a payload built without its document, completed with the document of the call
ForDoc(batch, d) == [i \in 1..Len(batch) |-> [batch[i] EXCEPT !.doc_id = d]]

\* handleExcelUpload(file) with selectedDocId = d: the rows with a number are
\* upserted on doc_id,evidence_no, then the rows without one are inserted;
\* an error of either statement is thrown.  The parse reads nothing but the
\* file: wbBatch.upload holds its payload from the moment the workbook is
\* chosen.
HandleExcelUpload(d) ==
  /\ upsertRows' = ForDoc(wbBatch.upload, d)
  /\ itemsBefore' = expense_items
  /\ UNCHANGED <<wb, wbBatch, pageVars, uploadVars, exportVars, docVars, call, viewVars>>
  /\ IF wbBatch.upload = <<>>
     THEN /\ log' = Logged("handleExcelUpload", d, "error")
          /\ UNCHANGED <<expense_items, nextId>>
     ELSE \E upsertOk, insertOk \in BOOLEAN :
            LET withNo    == WithNo(ForDoc(wbBatch.upload, d))
                withoutNo == WithoutNo(ForDoc(wbBatch.upload, d))
                upserted  == UpsertRows(expense_items, nextId, withNo)
                inserted  == InsertRows(upserted.table, upserted.nextId, withoutNo)
            IN  /\ inserted.nextId <= MaxIds + 1
                /\ IF withNo # <<>> /\ (~upsertOk \/ HasDuplicateKeys(withNo))
                   THEN /\ log' = Logged("handleExcelUpload", d, "error")
                        /\ UNCHANGED <<expense_items, nextId>>
                   ELSE IF withoutNo # <<>> /\ ~insertOk
                   THEN /\ log' = Logged("handleExcelUpload", d, "error")
                        /\ expense_items' = upserted.table
                        /\ nextId' = upserted.nextId
                   ELSE /\ log' = Logged("handleExcelUpload", d, "ok")
                        /\ expense_items' = inserted.table
                        /\ nextId' = inserted.nextId

\* the score findHeaderRow of importExcelToItems gives a row
ItemsHeaderScore(row) ==
  (IF RowHas(row, {<<"n", "o">>, <<"jeung", "bing", "beon", "ho">>, <<"yeon", "beon">>,
                   <<"beon", "ho">>}) THEN 2 ELSE 0)          \* no 증빙번호 연번 번호
  + (IF RowHas(row, {<<"pum", "myeong">>, <<"nae", "yong">>, <<"pum", "mok">>,
                     <<"pum", "mok", "myeong">>, <<"hang", "mok">>, <<"jeok", "yo">>})
     THEN 2 ELSE 0)                                           \* 품명 내용 품목 품목명 항목 적요
  + (IF RowHas(row, {<<"su", "ryang">>}) THEN 1 ELSE 0)      \* 수량

\* toNumberOrNull of importExcelToItems: Number() of the text when above 0
ItemsNumberOrNull(c) ==
  IF ~IsNaN(JsNumber(Trim(StringOf(c)))) /\ JsNumber(Trim(StringOf(c))).m > 0
  THEN JsNumber(Trim(StringOf(c))) ELSE NullN

\* insertPayload of importExcelToItems for the header row and columns found
ItemsPayloadOf(rows, d, headerIdx, cNo, cName, cQty) ==
  SelectSeq([i \in 1..(Len(rows) - headerIdx) |->
               NoRow(d, IF cNo > 0 THEN ItemsNumberOrNull(CellAt(rows[headerIdx + i], cNo))
                        ELSE NullN,
                     Trim(StringOf(CellAt(rows[headerIdx + i], cName))),
                     ItemsNumberOrNull(CellAt(rows[headerIdx + i], cQty)))],
            LAMBDA r : r.item_name # <<>>)

\* importExcelToItems up to the duplicate check: the insertPayload, empty
\* where the handler ends with a message (no header row, no name or no
\* quantity column, no row with a name)
ItemsPayloadAt(rows, d, headerIdx) ==
  IF headerIdx = 0 THEN <<>>
  ELSE IF ColIndex(rows[headerIdx], {<<"pum", "myeong">>, <<"nae", "yong">>, <<"pum", "mok">>,
                                     <<"pum", "mok", "myeong">>, <<"hang", "mok">>,
                                     <<"jeok", "yo">>}) = 0
          \/ ColIndex(rows[headerIdx], {<<"su", "ryang">>}) = 0
  THEN <<>>
  ELSE ItemsPayloadOf(rows, d, headerIdx,
         ColIndex(rows[headerIdx], {<<"n", "o">>, <<"jeung", "bing", "beon", "ho">>,
                                    <<"yeon", "beon">>}),
         ColIndex(rows[headerIdx], {<<"pum", "myeong">>, <<"nae", "yong">>, <<"pum", "mok">>,
                                    <<"pum", "mok", "myeong">>, <<"hang", "mok">>,
                                    <<"jeok", "yo">>}),
         ColIndex(rows[headerIdx], {<<"su", "ryang">>}))

ItemsPayload(rows, d) ==
  ItemsPayloadAt(rows, d,
    FirstIndex({i \in 1..Len(rows) :
                  /\ ItemsHeaderScore(rows[i]) > 0
                  /\ \A j \in 1..Len(rows) : ItemsHeaderScore(rows[j]) <= ItemsHeaderScore(rows[i])}))

\* importExcelToItems(file) with doc.id = d: a NO that comes twice in the
\* payload ends the call with a message; otherwise one insert, which the
\* unique index on doc_id,evidence_no refuses when a number is taken.
\* wbBatch.items holds the payload of the workbook.
ImportExcelToItems(d) ==
  /\ upsertRows' = ForDoc(wbBatch.items, d)
  /\ itemsBefore' = expense_items
  /\ UNCHANGED <<wb, wbBatch, pageVars, uploadVars, exportVars, docVars, call, viewVars>>
  /\ IF wbBatch.items = <<>> \/ HasDuplicateKeys(WithNo(wbBatch.items))
     THEN /\ log' = Logged("importExcelToItems", d, "error")
          /\ UNCHANGED <<expense_items, nextId>>
     ELSE \E dbOk \in BOOLEAN :
            LET inserted == InsertRows(expense_items, nextId, ForDoc(wbBatch.items, d))
            IN  /\ inserted.nextId <= MaxIds + 1
                /\ IF dbOk /\ \A t \in expense_items :
                                 ~HasDuplicateKeys(<<t>> \o WithNo(ForDoc(wbBatch.items, d)))
                   THEN /\ log' = Logged("importExcelToItems", d, "ok")
                        /\ expense_items' = inserted.table
                        /\ nextId' = inserted.nextId
                   ELSE /\ log' = Logged("importExcelToItems", d, "error")
                        /\ UNCHANGED <<expense_items, nextId>>

\* the table is empty or holds item NO 2 of d1 from an earlier import
InitNo ==
  /\ wb \in SeqsUpTo(NoRowNames, MaxNoRows)
  /\ wbBatch = [upload |-> UploadPayload(NoRowsOf(wb), ""),
                items |-> ItemsPayload(NoRowsOf(wb), "")]
  /\ \E earlier \in {[table |-> {}, nextId |-> 1],
                      InsertRows({}, 1, <<NoRow("d1", Int2Num(2), <<"an", "jeon", "mo">>,
                                               Int2Num(3))>>)} :
       /\ expense_items = earlier.table
       /\ nextId = earlier.nextId
  /\ upsertRows = <<>>
  /\ log = NoOp
  /\ itemsBefore = {}
  /\ PageIdle
  /\ UploadIdle
  /\ ExportIdle
  /\ DocsIdle
  /\ ViewIdle

NextNo ==
  \E d \in Docs :
    \/ HandleExcelUpload(d)
    \/ ImportExcelToItems(d)

SpecNo == InitNo /\ [][NextNo]_vars

(***************************************************************************)
(* The documents: createOrLoadDoc of the main page and createDoc.  Each    *)
(* await of a handler is a step of its own: other calls, from another tab  *)
(* or from a second run of the mount effect, run between the select and    *)
(* the insert of createOrLoadDoc.                                          *)
(***************************************************************************)
\* the site names and month keys documents are asked for
SiteNames == {"site"}
MonthKeys == {"2026-01", "2026-02"}

\* the rows of expense_docs with the pair (site, month)
DocsOfPair(docs, site, month) ==
  {x \in docs : x.site_name = site /\ x.month_key = month}

\* insert([{site_name, month_key}]): the table with the new row, whose id
\* the database makes
InsertDoc(docs, site, month) ==
  docs \cup {[id |-> Cardinality(docs) + 1, site_name |-> site, month_key |-> month]}

\* the state of call k after a step
DocReq(pc, site, month, id) == [pc |-> pc, site |-> site, month |-> month, doc |-> id]

\* createOrLoadDoc up to its first await answered: the select of the pair
\* with limit(1).  An error ends the call; a row found becomes the doc of the
\* page and the call ends; no row found leads to the insert.
FindDoc(k, site, month) ==
  /\ docReqs[k].pc = "idle"
  /\ UNCHANGED <<importVars, pageVars, uploadVars, exportVars, expense_docs, call, viewVars>>
  /\ \E findOk \in BOOLEAN :
       IF ~findOk
       THEN docReqs' = [docReqs EXCEPT ![k] = DocReq("failed", site, month, 0)]
       ELSE IF DocsOfPair(expense_docs, site, month) # {}
       THEN \E found \in DocsOfPair(expense_docs, site, month) :
              docReqs' = [docReqs EXCEPT ![k] = DocReq("done", site, month, found.id)]
       ELSE docReqs' = [docReqs EXCEPT ![k] = DocReq("insert", site, month, 0)]

\* createOrLoadDoc after the select found nothing: the insert of the pair
CreateAfterFind(k) ==
  /\ docReqs[k].pc = "insert"
  /\ UNCHANGED <<importVars, pageVars, uploadVars, exportVars, call, viewVars>>
  /\ \E createOk \in BOOLEAN :
       IF createOk
       THEN /\ expense_docs' = InsertDoc(expense_docs, docReqs[k].site, docReqs[k].month)
            /\ docReqs' = [docReqs EXCEPT ![k].pc = "done",
                                          ![k].doc = Cardinality(expense_docs) + 1]
       ELSE /\ docReqs' = [docReqs EXCEPT ![k].pc = "failed"]
            /\ UNCHANGED expense_docs

\* createDoc: the insert of the pair the two inputs hold, with no select
CreateDoc(k, site, month) ==
  /\ docReqs[k].pc = "idle"
  /\ UNCHANGED <<importVars, pageVars, uploadVars, exportVars, call, viewVars>>
  /\ \E createOk \in BOOLEAN :
       IF createOk
       THEN /\ expense_docs' = InsertDoc(expense_docs, site, month)
            /\ docReqs' = [docReqs EXCEPT ![k] =
                             DocReq("done", site, month, Cardinality(expense_docs) + 1)]
       ELSE /\ docReqs' = [docReqs EXCEPT ![k] = DocReq("failed", site, month, 0)]
            /\ UNCHANGED expense_docs

\* no document, or the document of one pair
InitDocs ==
  /\ wb = <<>>
  /\ wbBatch = <<>>
  /\ expense_items = {}
  /\ nextId = 1
  /\ upsertRows = <<>>
  /\ log = NoOp
  /\ itemsBefore = {}
  /\ PageIdle
  /\ UploadIdle
  /\ ExportIdle
  /\ expense_docs \in {{}, InsertDoc({}, "site", "2026-02")}
  /\ docReqs = [k \in 1..MaxDocCalls |-> NoDocReq]
  /\ call = NoCall
  /\ ViewIdle

NextDocs ==
  \E k \in 1..MaxDocCalls :
    \/ \E site \in SiteNames, month \in MonthKeys : FindDoc(k, site, month)
    \/ CreateAfterFind(k)
    \/ \E site \in SiteNames, month \in MonthKeys : CreateDoc(k, site, month)

SpecDocs == InitDocs /\ [][NextDocs]_vars

(***************************************************************************)
(* The handlers that write expense_items, side by side: the main page      *)
(* holds document d1 or d2 and a workbook of its own, while the import of  *)
(* PhotoSection.tsx runs for either document with another workbook, and    *)
(* the table already holds what an earlier import left in d1.              *)
(***************************************************************************)
\* the workbooks of the main page here: one detail row, two detail rows, a
\* header with no quantity column, a total row after the detail row
ScopedWorkbooks ==
  {<<"hdr", "pshoes">>, <<"hdr", "pshoes", "pzero">>, <<"hdrq", "pshoes">>,
   <<"hdr", "pzero", "ptotal">>}

\* importExcelExpenseItems(supabase, file, d), while the database has ids left
ScopedImport(d) ==
  /\ nextId + Len(wbBatch) - 1 <= MaxIds
  /\ ImportExcelExpenseItems(d)

InitScoped ==
  /\ wb \in ScopedWorkbooks
  /\ wbPreview = ParsePreview(PageRowsOf(wb))
  /\ excelPreview = NullPreview
  /\ doc \in Docs
  /\ wbBatch = BuildUpsertRows(ImportRowsOf(<<"cat2", "signs">>), "")
  /\ expense_items = EarlierImport.table
  /\ nextId = EarlierImport.nextId
  /\ upsertRows = <<>>
  /\ log = NoOp
  /\ itemsBefore = {}
  /\ UploadIdle
  /\ ExportIdle
  /\ DocsIdle
  /\ ViewIdle

NextScoped ==
  \/ ParseExcelForPreview
  \/ SaveExcelPreviewToDb
  \/ CancelPreview
  \/ DeleteAllItems
  \/ \E d \in Docs : ScopedImport(d)

SpecScoped == InitScoped /\ [][NextScoped]_vars

(***************************************************************************)
(* A slot replace while an export runs: the uploads of api/photos/upload   *)
(* and GET /expense/export side by side.  Item i1 of d1 has the photo of   *)
(* inbound slot 0, stored earlier as a png; the uploads replace it with a  *)
(* png (the same path) or a jpeg (another path).                           *)
(***************************************************************************)
\* the one item of the document
ReplaceItem ==
  [BuildUpsertRows(ImportRowsOf(<<"cat2", "signs">>), "d1")[1] EXCEPT !.doc_id = "d1"]

\* the request that stored the photo of the slot
EarlierUpload ==
  [docId |-> IF variant = "A" THEN "d1" ELSE "", itemId |-> "i1", kind |-> "inbound",
   slot |-> Int2Num(0), file |-> "png"]

\* the form fields of a replace of the slot
ReplaceInputs ==
  [docId : {"d1"}, itemId : {"i1"}, kind : {"inbound"}, slot : {<<"0">>},
   file : {"png", "jpeg"}]

InitReplace ==
  /\ wb = <<>>
  /\ wbBatch = <<>>
  /\ expense_items = {WithId(ReplaceItem, "i1")}
  /\ nextId = 1
  /\ upsertRows = <<>>
  /\ log = NoOp
  /\ itemsBefore = {}
  /\ PageIdle
  /\ variant \in {"A", "B"}
  /\ uniqueSlot \in (IF variant = "A" THEN {TRUE} ELSE BOOLEAN)
  /\ expense_item_photos = {PhotoRow(EarlierUpload, 1)}
  /\ storage = {[bucket |-> UploadBucket, path |-> StoragePath(EarlierUpload),
                 file |-> "old"]}
  /\ reqs = [k \in 1..MaxUploads |-> NoReq]
  /\ ExportIdle
  /\ DocsIdle
  /\ ViewIdle

NextReplace ==
  \/ \E k \in 1..MaxUploads :
       \/ \E in \in ReplaceInputs : ReceiveUpload(k, in)
       \/ SelectExisting(k)
       \/ UploadObject(k)
       \/ UpsertPhoto(k)
       \/ WritePhoto(k)
  \/ ExportGet("d1")
  \/ ExportItem
  \/ FetchPrimary
  \/ FetchFallback
  \/ ExportRespond

SpecReplace == InitReplace /\ [][NextReplace]_vars

(***************************************************************************)
(* GET /expense/export for documents of many shapes: the lines of the      *)
(* first sheet and the names of the photo sheets.  The items carry no      *)
(* photo here.                                                             *)
(***************************************************************************)
\* category 2 holds up to MaxCategoryItems items
MaxCategoryItems == 13

\* the id of the k-th item of a category: ids the database draws at random
\* differ from their first character on, ids that grow with the time of
\* the insert share their first characters
BookId(scheme, cat, k) ==
  IF scheme = "random"
  THEN NatToText(cat) \o <<"-">> \o NatToText(k) \o <<"f", "f", "f", "f">>
  ELSE <<"0", "1", "9", "a", "b", "c">> \o NatToText(cat) \o <<"-">> \o NatToText(k)

\* the k-th item of a category (category 0: no category number), with the
\* columns the export reads
BookItem(scheme, cat, k) ==
  [id |-> BookId(scheme, cat, k), doc_id |-> "d1",
   category_no |-> IF cat = 0 THEN NullN ELSE Int2Num(cat),
   evidence_no |-> Int2Num(k)]

\* the items of a document with count[cat] items of each category, numbered
\* from 1 within the category as the import numbers them
BookItems(scheme, count) ==
  UNION {{BookItem(scheme, cat, k) : k \in 1..count[cat]} : cat \in DOMAIN count}

\* the documents: the categories 2, 3, 9 of the first sheet, category 4 and
\* items without a category number
BookCounts ==
  {c \in [{0, 2, 3, 4, 9} -> 0..MaxCategoryItems] :
     /\ c[2] \in {0, 1, MaxCategoryItems}
     /\ \A cat \in {0, 3, 4, 9} : c[cat] <= 1}

InitBook ==
  /\ wb = <<>>
  /\ wbBatch = <<>>
  /\ \E scheme \in {"random", "ordered"}, count \in BookCounts :
       expense_items = BookItems(scheme, count)
  /\ nextId = 1
  /\ upsertRows = <<>>
  /\ log = NoOp
  /\ itemsBefore = {}
  /\ PageIdle
  /\ UploadIdle
  /\ ExportIdle
  /\ DocsIdle
  /\ ViewIdle

NextBook ==
  \/ ExportGet("d1")
  \/ ExportItem
  \/ ExportRespond

SpecBook == InitBook /\ [][NextBook]_vars

(***************************************************************************)
(* components/ItemCombobox.tsx                                             *)
(***************************************************************************)
\* the zero-width characters U+200B..U+200D and U+FEFF
ZeroWidth == {"zw"}

\* normalizeKey: NFKC (which leaves the characters of the model as they
\* are), zero-width characters and all white space removed, lower case
NormalizeKey(s) == ToLower(SelectSeq(s, LAMBDA c : c \notin ZeroWidth /\ ~IsSpace(c)))

RenderLabel(it) == it.item_name

\* the key uniqueItems files an item under
DedupeKey(it, dedupeBy) ==
  CASE dedupeBy = "id" -> <<"id:", it.id>>
    [] dedupeBy = "evidence_no" ->
         IF it.evidence_no > 0 THEN <<"no:">> \o NatToText(it.evidence_no)
         ELSE <<"id:", it.id>>
    [] OTHER -> <<"name:">> \o NormalizeKey(it.item_name)

\* the item a Map keeps for the key of items[i]: new Map(pairs) keeps the
\* last item of an id, the loops with map.has keep the first of a key
KeptItem(items, i, dedupeBy) ==
  IF dedupeBy = "id"
  THEN items[CHOOSE j \in i..Len(items) :
               /\ items[j].id = items[i].id
               /\ \A k \in (j + 1)..Len(items) : items[k].id # items[i].id]
  ELSE items[i]

\* uniqueItems: one item for every key, in the order the keys first appear
RECURSIVE UniqueFrom(_, _, _)
UniqueFrom(items, i, dedupeBy) ==
  IF i > Len(items) THEN <<>>
  ELSE IF \E j \in 1..(i - 1) : DedupeKey(items[j], dedupeBy) = DedupeKey(items[i], dedupeBy)
  THEN UniqueFrom(items, i + 1, dedupeBy)
  ELSE <<KeptItem(items, i, dedupeBy)>> \o UniqueFrom(items, i + 1, dedupeBy)

UniqueItems(items, dedupeBy) == UniqueFrom(items, 1, dedupeBy)

\* filtered: the unique items whose label holds the query
Filtered(uniqueItems, q) ==
  IF NormalizeKey(q) = <<>> THEN uniqueItems
  ELSE SelectSeq(uniqueItems,
         LAMBDA it : Includes(NormalizeKey(RenderLabel(it)), NormalizeKey(q)))

\* selectedItem: the unique items with the id value (none when value is null)
SelectedItem(uniqueItems, value) ==
  IF value = "" THEN <<>> ELSE SelectSeq(uniqueItems, LAMBDA it : it.id = value)

\* the value of the input: the query while open, else the label of the
\* selected item, else nothing
InputValue(c) ==
  LET sel == SelectedItem(UniqueItems(c.items, c.dedupeBy), c.value)
  IN  IF c.open THEN c.q
      ELSE IF sel # <<>> THEN RenderLabel(sel[1])
      ELSE <<>>

\* the options the list shows
Options(c) == Filtered(UniqueItems(c.items, c.dedupeBy), c.q)

\* onFocus of the input
ComboFocus ==
  /\ combo.items # <<>>
  /\ combo' = [combo EXCEPT !.open = TRUE, !.q = <<>>]
  /\ UNCHANGED <<importVars, pageVars, uploadVars, exportVars, docVars, call, view, tabs>>

\* onChange of the input
ComboType(text) ==
  /\ combo.items # <<>>
  /\ combo' = [combo EXCEPT !.open = TRUE, !.q = text]
  /\ UNCHANGED <<importVars, pageVars, uploadVars, exportVars, docVars, call, view, tabs>>

\* onClick of an option: onChange(it.id), which the parent stores as value
ComboChoose ==
  /\ combo.open
  /\ \E i \in 1..Len(Options(combo)) :
       combo' = [combo EXCEPT !.value = Options(combo)[i].id, !.open = FALSE, !.q = <<>>]
  /\ UNCHANGED <<importVars, pageVars, uploadVars, exportVars, docVars, call, view, tabs>>

\* onClick of "선택 해제": onChange(null)
ComboClear ==
  /\ combo.open
  /\ combo' = [combo EXCEPT !.value = "", !.open = FALSE, !.q = <<>>]
  /\ UNCHANGED <<importVars, pageVars, uploadVars, exportVars, docVars, call, view, tabs>>

\* onClick of "닫기" or a mouse press outside
ComboClose ==
  /\ combo.open
  /\ combo' = [combo EXCEPT !.open = FALSE]
  /\ UNCHANGED <<importVars, pageVars, uploadVars, exportVars, docVars, call, view, tabs>>

\* the list holds at most MaxComboItems items
MaxComboItems == 2

ComboNames == {<<"jang", "gap">>, <<"jang", " ", "gap">>, <<"mo", "ja">>}
ComboQueries == {<<"jang">>, <<"mo", " ">>}
ComboIds == <<"i1", "i2", "i3", "i4">>

\* the lists of items a parent passes: the ids are the primary keys of
\* expense_items, one for each item
ComboItemLists ==
  UNION {{[i \in 1..n |-> [id |-> ComboIds[i], item_name |-> f[i].name,
                            evidence_no |-> f[i].no]] :
            f \in [1..n -> [name : ComboNames, no : {0, 1}]]} : n \in 0..MaxComboItems}

InitCombo ==
  /\ wb = <<>>
  /\ wbBatch = <<>>
  /\ expense_items = {}
  /\ nextId = 1
  /\ upsertRows = <<>>
  /\ log = NoOp
  /\ itemsBefore = {}
  /\ PageIdle
  /\ UploadIdle
  /\ ExportIdle
  /\ DocsIdle
  /\ view = NoView
  /\ tabs = NoTabs
  /\ \E items \in ComboItemLists, dedupeBy \in {"item_name", "evidence_no", "id"} :
       \E value \in {""} \cup {items[i].id : i \in 1..Len(items)} :
         combo = [items |-> items, dedupeBy |-> dedupeBy, value |-> value,
                  open |-> FALSE, q |-> <<>>]

NextCombo ==
  \/ ComboFocus
  \/ \E text \in ComboQueries : ComboType(text)
  \/ ComboChoose
  \/ ComboClear
  \/ ComboClose

SpecCombo == InitCombo /\ [][NextCombo]_vars

(***************************************************************************)
(* components/PhotoSection.tsx: the slots and the loading of the photos    *)
(***************************************************************************)
\* the items a PhotoSection is shown for
ViewItems == {"i1", "i2", "i3"}

\* the rows GET /api/photos answers for an item: [kind, slot_index]
ApiRows(itemId) ==
  IF itemId = "i1"
  THEN {[kind |-> "inbound", slot_index |-> 0], [kind |-> "install", slot_index |-> 0],
        [kind |-> "install", slot_index |-> 4]}
  ELSE IF itemId = "i2"
  THEN {[kind |-> "install", slot_index |-> 1], [kind |-> "inbound", slot_index |-> 1]}
  ELSE {}

\* keyFromRow: the slot of a row, "null" when it has none
KeyFromRow(kind, slotIndex) ==
  IF kind = "inbound" THEN (IF slotIndex = 0 THEN "inbound" ELSE "null")
  ELSE IF kind = "install"
  THEN (IF slotIndex < 0 \/ slotIndex > 3 THEN "null"
        ELSE CASE slotIndex = 0 -> "install0" [] slotIndex = 1 -> "install1"
               [] slotIndex = 2 -> "install2" [] OTHER -> "install3")
  ELSE "null"

IsBlobUrl(url) == url = "blob"

\* the updater of load: every row with a slot fills it with its signed url
\* unless the slot shows a locally picked file
LoadedSlots(prev, itemId) ==
  [k \in SlotKeys |->
     IF /\ \E r \in ApiRows(itemId) : KeyFromRow(r.kind, r.slot_index) = k
        /\ ~IsBlobUrl(prev[k].url)
     THEN [url |-> "signed", item |-> itemId, file |-> FALSE]
     ELSE prev[k]]

\* the section can be given another item MaxSelects times
MaxSelects == 3

\* the page gives the mounted section another item (page.tsx renders it
\* only with a document and an item): the first effect empties the slots,
\* the second sends the request for the photos of the item
SelectItem(i) ==
  /\ i # view.itemId
  /\ view.changes < MaxSelects
  /\ view' = [itemId |-> i, slots |-> EmptySlots, loads |-> view.loads \cup {i},
              changes |-> view.changes + 1]
  /\ UNCHANGED <<importVars, pageVars, uploadVars, exportVars, docVars, call, combo, tabs>>

\* the answer to a request arrives: rows, or an error that is logged only
LoadResponds(i) ==
  /\ i \in view.loads
  /\ \E ok \in BOOLEAN :
       view' = [view EXCEPT !.loads = view.loads \ {i},
                            !.slots = IF ok THEN LoadedSlots(view.slots, i) ELSE view.slots]
  /\ UNCHANGED <<importVars, pageVars, uploadVars, exportVars, docVars, call, combo, tabs>>

\* onPick with an image file: setFile(key, file)
PickFile(k) ==
  /\ view' = [view EXCEPT !.slots[k] = [url |-> "blob", item |-> view.itemId, file |-> TRUE]]
  /\ UNCHANGED <<importVars, pageVars, uploadVars, exportVars, docVars, call, combo, tabs>>

InitSlots ==
  /\ wb = <<>>
  /\ wbBatch = <<>>
  /\ expense_items = {}
  /\ nextId = 1
  /\ upsertRows = <<>>
  /\ log = NoOp
  /\ itemsBefore = {}
  /\ PageIdle
  /\ UploadIdle
  /\ ExportIdle
  /\ DocsIdle
  /\ combo = NoCombo
  /\ tabs = NoTabs
  /\ \E i \in ViewItems :
       view = [itemId |-> i, slots |-> EmptySlots, loads |-> {i}, changes |-> 0]

NextSlots ==
  \/ \E i \in ViewItems : SelectItem(i)
  \/ \E i \in ViewItems : LoadResponds(i)
  \/ \E k \in SlotKeys : PickFile(k)

SpecSlots == InitSlots /\ [][NextSlots]_vars

(***************************************************************************)
(* Claims on importExcelExpenseItems                                       *)
(***************************************************************************)
\* the records of the last batch that carry category key k, in batch order
BatchOfKey(k) == SelectSeq(upsertRows, LAMBDA r : r.category_key = k)

\* C1: in the batch importExcelExpenseItems builds, the records of each
\* category key carry the evidence numbers 1, 2, .., n in this order: they
\* start at 1 and have no gap and no repeat.
C1_EvidenceNumbersContiguous ==
  \A k \in {upsertRows[i].category_key : i \in 1..Len(upsertRows)} :
    \A j \in 1..Len(BatchOfKey(k)) : BatchOfKey(k)[j].evidence_no = Int2Num(j)

\* C2: a call of importExcelExpenseItems that follows a successful call for
\* the same workbook and the same document leaves expense_items as it is: no
\* row is added, lost or changed.
C2_ReimportIdempotent ==
  [][(/\ log.op = "import" /\ log.result = "ok"
      /\ log'.op = "import" /\ log'.doc = log.doc)
     => expense_items' = expense_items]_vars

\* C2 witness: a successful import into a document that already held the
\* rows of the workbook, after which the table is what it was before.
C2_Witness ==
  /\ log.op = "import" /\ log.result = "ok"
  /\ ItemsOf(itemsBefore, log.doc) # {}
  /\ expense_items = itemsBefore

\* C12: after a successful import, every record of its batch has exactly one
\* row in expense_items under its key (document, category key, evidence
\* number), and that row carries the quantity of the batch: an item that was
\* there under the key with another quantity has been replaced.
C12_OneRowWithNewQty ==
  (log.op = "import" /\ log.result = "ok") =>
    \A i \in 1..Len(upsertRows) :
      /\ Cardinality({t \in expense_items : ConflictKey(t) = ConflictKey(upsertRows[i])}) = 1
      /\ \A t \in expense_items :
           ConflictKey(t) = ConflictKey(upsertRows[i]) => t.qty = upsertRows[i].qty

\* C12 witness: a successful import met a row under one of its keys that
\* carried another quantity.
C12_Witness ==
  /\ log.op = "import" /\ log.result = "ok"
  /\ \E t \in itemsBefore, u \in expense_items :
       ConflictKey(t) = ConflictKey(u) /\ t.qty # u.qty

C14_FailedImportNoEffect ==
  (/\ log.op \in {"import", "handleExcelUpload", "importExcelToItems", "save"}
   /\ log.result = "error")
  => ItemsOf(expense_items, log.doc) = ItemsOf(itemsBefore, log.doc)

\* C15: when the header mapping finds no item-name column or no quantity
\* column, the import fails: no preview is shown and the parse does not
\* report success.  Here for parseExcelForPreview of the main page, with the
\* columns it maps from the header row it found.
C15_MandatoryColumns ==
  (/\ log.op = "parse"
   /\ log.doc # NoDoc
   /\ FindHeaderRow(PageRowsOf(wb)) # 0
   /\ LET cols == ColumnsOf(PageRowsOf(wb)[FindHeaderRow(PageRowsOf(wb))])
      IN cols.cNaeyeok = 0 \/ cols.cSuryang = 0)
  => (log.result # "ok" /\ ~excelPreview.set)

\* C16: at most one document exists per (site name, month key): no two rows
\* of expense_docs carry the same pair.
C16_OneDocPerPair ==
  \A a, b \in expense_docs :
    (a.site_name = b.site_name /\ a.month_key = b.month_key) => a.id = b.id

\* C16, the calls of createOrLoadDoc alone: a call of createOrLoadDoc inserts
\* a document only when no document of the pair exists at the insert.
C16_InsertOnlyWhenNone ==
  [][\A k \in 1..MaxDocCalls :
       (docReqs[k].pc = "insert" /\ docReqs'[k].pc = "done")
       => DocsOfPair(expense_docs, docReqs[k].site, docReqs[k].month) = {}]_vars

\* C17: an import, a save of a preview or a delete-all for document A leaves
\* every item of another document as it was: after such a call, the rows
\* whose doc_id is not A are the rows of before the call.
C17_OtherDocumentsUnchanged ==
  log.op \in {"import", "save", "delete"}
  => {t \in expense_items : t.doc_id # log.doc} = {t \in itemsBefore : t.doc_id # log.doc}

\* C17 happens: a delete-all removed the items of its document while another
\* document holds items
C17_Witness ==
  /\ log.op = "delete" /\ log.result = "ok"
  /\ \E t \in itemsBefore : t.doc_id = log.doc
  /\ \E t \in expense_items : t.doc_id # log.doc

\* C18: while uploads replace the photo of a slot, the export never meets a
\* missing object and never obtains anything but the old image or a new
\* image of the slot: whenever the export is about to fetch a photo, an
\* object lies under the path it holds, and every fetch that succeeded gave
\* the old file or an uploaded file of the type the path names.
C18_OldOrNewImage ==
  /\ exp.pc = "fetch" =>
       \E o \in storage : o.bucket = UploadBucket /\ o.path = exp.queue[exp.pos].path
  /\ \A i \in 1..Len(attempts) :
       attempts[i].ok =>
         \/ attempts[i].file = "old" /\ attempts[i].path = StoragePath(EarlierUpload)
         \/ \E f \in {"png", "jpeg"} :
              /\ attempts[i].file = f
              /\ attempts[i].path = StoragePath([EarlierUpload EXCEPT !.file = f])

\* C18 happens: an upload is between its storage write and its record write
\* (the record still names the old path), and the export, running, has
\* fetched the new image from that path
C18_Witness ==
  /\ \E k \in 1..MaxUploads : reqs[k].pc = "write"
  /\ exp.pc \in {"item", "fetch"}
  /\ attempts # <<>>
  /\ attempts[Len(attempts)].ok
  /\ attempts[Len(attempts)].file = "png"

\* C19: on the main page an item is persisted only from a preview that is
\* shown: a step that adds rows to expense_items is taken with a preview
\* held, every added row carries the name and the quantity of a detail row
\* of that preview, and the step clears the preview; a cancel clears the
\* preview as well, so that no save follows without a new parse.
C19_SaveOnlyFromPreview ==
  /\ [][expense_items' \ expense_items # {} =>
          /\ excelPreview.set
          /\ \A t \in expense_items' \ expense_items :
               \E i \in 1..Len(excelPreview.rows) :
                 /\ excelPreview.rows[i].isDetail
                 /\ excelPreview.rows[i].item_name = t.item_name
                 /\ excelPreview.rows[i].qty = t.qty
          /\ ~excelPreview'.set]_vars
  /\ [][(log'.op = "cancel" \/ (log'.op = "save" /\ log'.result = "ok")) =>
          ~excelPreview'.set]_vars

\* C19 happens: a save wrote the detail rows of the preview and the preview
\* is gone
C19_Witness ==
  /\ log.op = "save" /\ log.result = "ok"
  /\ expense_items \ itemsBefore # {}
  /\ ~excelPreview.set

\* C20: whenever a save writes items for a document, the document held no
\* item immediately before the write.
C20_SaveIntoEmptyDocument ==
  (log.op = "save" /\ log.result = "ok") => {t \in itemsBefore : t.doc_id = log.doc} = {}

\* C21: a save inserts every detail row of the preview whose (item name,
\* used-at, quantity) matches no item the document held, and skips exactly
\* the rows that match one: the rows added are as many as the detail rows
\* with no match, and each such detail row is among them.
C21_InsertsExactlyTheUnmatched ==
  (log.op = "save" /\ log.result \in {"ok", "duplicates"}) =>
    LET held == {<<t.item_name, t.used_at, t.qty>> : t \in ItemsOf(itemsBefore, log.doc)}
        details == SelectSeq(wbPreview.rows, LAMBDA p : p.isDetail)
        unmatched == SelectSeq(details,
                       LAMBDA p : <<p.item_name, ToDateForDb(p.used_at), p.qty>> \notin held)
    IN  /\ Cardinality(expense_items \ itemsBefore) = Len(unmatched)
        /\ \A i \in 1..Len(unmatched) :
             \E t \in expense_items \ itemsBefore :
               /\ t.item_name = unmatched[i].item_name
               /\ t.used_at = ToDateForDb(unmatched[i].used_at)
               /\ t.qty = unmatched[i].qty

\* C22: in one export every item gets a photo sheet of its own and the names
\* of the sheets are pairwise distinct: no two sheets the loop has added
\* carry the same name, the name the loop gives the next item is not taken,
\* and a workbook that is sent has one sheet for each item.
C22_DistinctSheetNames ==
  /\ \A i, j \in 1..Len(book.sheets) : i # j => book.sheets[i] # book.sheets[j]
  /\ (exp.pc = "item" /\ exp.idx <= Len(book.items)) =>
       ~NameTaken(book.sheets, FinalName(book.sheets, book.items[exp.idx]))
  /\ response = "workbook" => Len(book.sheets) = Len(book.items)

\* C26: the export writes the i-th item (from 0, in the order of the select)
\* of category 2, 3 or 9 into row 8 + i, 20 + i or 60 + i of the first sheet,
\* and no two items of the document are written into the same row.
C26_OneRowPerItem ==
  /\ \A i \in 1..Len(book.items) :
       \A c \in {<<2, 8>>, <<3, 20>>, <<9, 60>>} :
         book.items[i].category_no = Int2Num(c[1]) =>
           [row |-> c[2] + Cardinality({j \in 1..(i - 1) :
                                          book.items[j].category_no = Int2Num(c[1])}),
            id |-> book.items[i].id] \in book.cells
  /\ \A a, b \in book.cells : a.row = b.row => a.id = b.id

\* C27: every item of the exported document has a line on the first sheet:
\* each item the export selected, and so each item that gets a photo sheet,
\* is written into a row.
C27_EveryItemListed ==
  \A i \in 1..Len(book.items) : \E c \in book.cells : c.id = book.items[i].id

\* C23: an import that extracts no valid detail row writes nothing and ends
\* as a failure: the call of importExcelExpenseItems whose batch is empty
\* leaves the table as it was and throws, it does not return a result.
C23_ZeroRowsIsFailure ==
  (log.op = "import" /\ upsertRows = <<>>) =>
    (expense_items = itemsBefore /\ log.result = "error")

\* a category header as the sheet has it: a row that holds no detail and
\* whose text reads "N. title"
IsHeaderRow(row) == ~ParseDetailRow(row).ok /\ DetectCategoryFromRow(row).found

\* the rows of the sheet that hold a detail (a name that is no total, a
\* positive quantity) and stand after a category header
DetailRowsAfterHeader(rows) ==
  {i \in 1..Len(rows) :
     /\ ParseDetailRow(rows[i]).ok
     /\ \E j \in 1..(i - 1) : IsHeaderRow(rows[j])}

\* C24: importExcelExpenseItems emits exactly one record for every row that
\* stands after a category header and has an item name that is not blank and
\* no total and a positive quantity; the text of a date or number cell (a
\* used-at date "25.12.22") never makes such a row a category header.
C24_EveryDetailRowEmitted ==
  (log.op = "import") =>
    Len(upsertRows) = Cardinality(DetailRowsAfterHeader(ImportRowsOf(wb)))

\* C28: with the default dedupeBy = "item_name", every item passed to the
\* combobox has an option whose choice calls onChange with its id, and when
\* value is the id of an item the closed input shows the label of that item.
C28_EveryItemSelectable ==
  (combo.dedupeBy = "item_name") =>
    /\ \A i \in 1..Len(combo.items) :
         \E j \in 1..Len(UniqueItems(combo.items, combo.dedupeBy)) :
           UniqueItems(combo.items, combo.dedupeBy)[j].id = combo.items[i].id
    /\ \A i \in 1..Len(combo.items) :
         (combo.value = combo.items[i].id /\ ~combo.open)
           => InputValue(combo) = RenderLabel(combo.items[i])

\* C29: every picture a slot of the PhotoSection shows belongs to the item
\* that is selected now: the answer to the photo-list request of an item
\* selected before never fills a slot.
C29_SlotsOfSelectedItem ==
  \A k \in SlotKeys :
    (view.slots[k].url # "none") => (view.slots[k].item = view.itemId)

\* the checks of a version on the fields of a request, as the records and
\* the paths keep them: document and item given, a kind the version knows, a
\* slot index in 0..3 (an integer in A, 0 for inbound in B)
FieldsPass(docId, itemId, kind, slot) ==
  /\ itemId # ""
  /\ IF IsNaN(slot) THEN FALSE ELSE slot.m >= 0 /\ ~NumLt(Int2Num(3), slot)
  /\ IF variant = "A"
     THEN docId # "" /\ kind \in {"inbound", "install"} /\ NumIsInteger(slot)
     ELSE kind \in {"inbound", "issue_install"} /\ (kind = "inbound" => slot = Int2Num(0))

\* the checks of a version on the file: there is one, of at most MAX_BYTES
\* in A, of an image type in B
FilePasses(file) ==
  /\ UploadFile(file).present
  /\ IF variant = "A" THEN UploadFile(file).size <= MAX_BYTES
     ELSE SubSeq(UploadFile(file).type, 1, 6) = <<"i", "m", "a", "g", "e", "/">>

\* C30: a request the upload endpoint rejects for its input changes neither
\* the storage nor expense_item_photos, every check running before the first
\* write: the step that rejects a request is taken before the request has
\* written and leaves both as they are, and every object and every record
\* comes from a request that passed the checks.
C30_RejectedChangesNothing ==
  /\ [](\A o \in storage :
          /\ FieldsPass(o.path.doc, o.path.item, o.path.kind, o.path.slot)
          /\ FilePasses(o.file))
  /\ [](\A p \in expense_item_photos : FieldsPass(p.doc_id, p.item_id, p.kind, p.slot_index))
  /\ [][\A k \in 1..MaxUploads :
          (\/ reqs'[k].result = "rejected" /\ reqs[k].result # "rejected"
           \/ reqs'[k] = reqs[k] /\ reqs[k].pc = "idle" /\ log' # log /\ log'.result = "rejected")
            => /\ reqs[k].pc \in {"idle", "select"}
               /\ storage' = storage
               /\ expense_item_photos' = expense_item_photos]_vars

\* C30 witness: a request is rejected while the storage and the table hold
\* what an earlier request wrote.
C30_Witness ==
  /\ log.op = "upload" /\ log.result = "rejected"
  /\ storage # {}
  /\ expense_item_photos # {}

\* C25: after any sequence or interleaving of saves of the preview into one
\* document, no two items of the document share an evidence number.
C25_DistinctEvidenceNumbers ==
  \A a, b \in expense_items :
    (a.doc_id = b.doc_id /\ a.evidence_no = b.evidence_no) => a.id = b.id

(***************************************************************************)
(* Claims on the total rows and the quantities of the imports              *)
(***************************************************************************)
\* C9: no persisted item carries one of the total words 합계, 계, 총계, 소계 as
\* its item name: a row whose item-name cell is exactly such a word yields no
\* item, in importExcelExpenseItems and in the preview/save of the main page.
C9_NoTotalRowPersisted ==
  \A t \in expense_items :
    t.item_name \notin {<<"hap", "gye">>, <<"gye">>, <<"chong", "gye">>, <<"so", "gye">>}

\* C10: every persisted item has a quantity above 0: a row whose quantity
\* cell is "0" or blank is not persisted by any import path.
C10_PersistedQtyPositive ==
  \A t \in expense_items : t.qty # NullN /\ t.qty.m > 0

(***************************************************************************)
(* Claims on the upload endpoint                                           *)
(***************************************************************************)
\* C3: expense_item_photos holds at most one record per (item id, kind, slot
\* index), after any interleaving of upload requests, in both versions.
C3_OneRecordPerSlot ==
  \A p, q \in expense_item_photos :
    (p.item_id = q.item_id /\ p.kind = q.kind /\ p.slot_index = q.slot_index) => p = q

\* C4: after a sequence of uploads that all succeeded, storage holds exactly
\* one object for a slot that has a record, the object the record names: an
\* upload to an occupied slot has replaced the object as well as the record.
C4_OneObjectPerSlot ==
  (\A k \in 1..MaxUploads :
     reqs[k].pc = "idle" \/ (reqs[k].pc = "done" /\ reqs[k].result = "ok"))
  => \A p \in expense_item_photos :
       {o.path : o \in {x \in storage :
                          /\ x.path.item = p.item_id /\ x.path.kind = p.kind
                          /\ x.path.slot = p.slot_index}}
       = {p.storage_path}

\* C5: every photo record is an inbound record at slot 0 or an install record
\* at an integer slot 0..3, so an item has at most 1 inbound and at most 4
\* install records.
C5_SlotRules ==
  /\ \A p \in expense_item_photos :
       /\ NumIsInteger(p.slot_index)
       /\ p.slot_index.m \in 0..3
       /\ p.kind = "inbound" => p.slot_index = Int2Num(0)
  /\ \A i \in {p.item_id : p \in expense_item_photos} :
       /\ Cardinality({p \in expense_item_photos : p.item_id = i /\ p.kind = "inbound"}) <= 1
       /\ Cardinality({p \in expense_item_photos : p.item_id = i /\ p.kind # "inbound"}) <= 4

(***************************************************************************)
(* Claims on the export                                                    *)
(***************************************************************************)
\* the cells of a range
Cells(r) == (r.c1..r.c2) \X (r.r1..r.r2)

\* the layout for n images in the block of a kind (inbound B6:E15, install
\* F6:I15): 1 the full block, 2 left and right, 3 the full-width top and two
\* bottom halves, 4 the 2x2 grid
Layout(kind, n) ==
  LET c == IF kind = "inbound" THEN 2 ELSE 6
      full   == Range(c, 6, c + 3, 15)
      left   == Range(c, 6, c + 1, 15)
      right  == Range(c + 2, 6, c + 3, 15)
      top    == Range(c, 6, c + 3, 10)
      tleft  == Range(c, 6, c + 1, 10)
      tright == Range(c + 2, 6, c + 3, 10)
      bleft  == Range(c, 11, c + 1, 15)
      bright == Range(c + 2, 11, c + 3, 15)
  IN  IF n <= 1 THEN <<full>>
      ELSE IF n = 2 THEN <<left, right>>
      ELSE IF n = 3 THEN <<top, bleft, bright>>
      ELSE <<tleft, tright, bleft, bright>>

\* the images the export has placed for an item and a kind
PlacedOf(item, kind) == {pl \in placed : pl.item = item /\ pl.kind = kind}

\* C6: after a successful export, an item with k photos of a kind (inbound
\* or install, any k) has exactly min(k, 4) images of the kind on its sheet,
\* the i-th photo in slot order in the i-th range of the layout for
\* min(k, 4); the ranges of the layout are pairwise disjoint and the photos
\* after the fourth are left out.
C6_PhotoLayout ==
  response = "workbook" =>
    \A item \in {t.id : t \in expense_items}, kind \in {"inbound", "install"} :
      LET n == Min4(BagCardinality(PhotosOfKind(item, kind)))
      IN  /\ \A i, j \in 1..Len(Layout(kind, n)) :
               i # j => Cells(Layout(kind, n)[i]) \cap Cells(Layout(kind, n)[j]) = {}
          /\ Cardinality(PlacedOf(item, kind)) = n
          /\ \E photos \in Ordered(PhotosOfKind(item, kind), "slot_index") :
               PlacedOf(item, kind) =
                 {[item |-> item, kind |-> kind, range |-> Layout(kind, n)[i],
                   path |-> photos[i].storage_path] : i \in 1..n}

\* C6 witness: a workbook response for a document with an item of more than
\* four inbound photos and an item of exactly three.
C6_Witness ==
  /\ response = "workbook"
  /\ \E t \in expense_items : BagCardinality(PhotosOfKind(t.id, "inbound")) > 4
  /\ \E t \in expense_items : BagCardinality(PhotosOfKind(t.id, "inbound")) = 3

\* C7: when the fetch of a photo has failed in both buckets the export answers
\* with an error and no workbook; an image is placed only by a step whose
\* fetch of that photo succeeded, and a workbook response comes only with
\* every selected photo of every item placed.
C7_NoWorkbookWithoutEveryPhoto ==
  /\ []((Len(attempts) = 2 /\ ~attempts[2].ok) => response = "error")
  /\ [](response = "workbook" =>
          \A item \in {t.id : t \in expense_items}, kind \in {"inbound", "install"} :
            Cardinality(PlacedOf(item, kind)) = Min4(BagCardinality(PhotosOfKind(item, kind))))
  /\ [][placed' # placed =>
          /\ attempts'[Len(attempts')].ok
          /\ \E pl \in placed' : /\ placed' = placed \cup {pl}
                                 /\ pl.path = attempts'[Len(attempts')].path]_vars

\* C7 witness: the export of a document has placed the photos of its first
\* item, the fetch of a photo of the second item has failed in both buckets,
\* and the response is the error.
C7_Witness ==
  /\ response = "error"
  /\ exp.idx = 2
  /\ placed # {}
  /\ Len(attempts) = 2
  /\ ~attempts[2].ok

\* C8: the fetches for one photo are the primary bucket once and, only after
\* that fetch failed, the fallback bucket once, for the same path, and no
\* more; a photo that is placed is not fetched again; after a failed fallback
\* fetch the photo is not placed and the export has ended.
C8_FetchAttempts ==
  /\ [](/\ Len(attempts) <= 2
        /\ attempts # <<>> => attempts[1].bucket = BUCKET
        /\ Len(attempts) = 2 => /\ ~attempts[1].ok
                                /\ attempts[2].bucket = BUCKET_FALLBACK
                                /\ attempts[2].path = attempts[1].path
        /\ (Len(attempts) = 2 /\ ~attempts[2].ok) =>
             (exp.pc = "done" /\ exp.queue[exp.pos] \notin placed))
  /\ [][attempts' # attempts =>
          /\ exp.queue[exp.pos] \notin placed
          /\ attempts'[Len(attempts')].path = exp.queue[exp.pos].path
          /\ Len(attempts') = 2 => SubSeq(attempts', 1, 1) = attempts]_vars

\* C8 witness: the primary fetch of a photo failed, its fallback fetch gave
\* the image, and the image is placed.
C8_Witness ==
  /\ Len(attempts) = 2
  /\ attempts[2].ok
  /\ \E pl \in placed : pl.path = attempts[2].path

(***************************************************************************)
(* Claims on the date conversions                                          *)
(***************************************************************************)
\* C11: toISODate and toDateForDb give, for a text YY.M.D, the date
\* 19YY-MM-DD when YY >= 70 and 20YY-MM-DD otherwise, for a text YYYY-M-D or
\* YYYY.M.D (each separator - or .) the date YYYY-MM-DD, and null for a text
\* of any other shape.
C11_DateNormalisation ==
  call.fn # "none" =>
    call.out =
      IF Len(call.arg.y) = 2 /\ call.arg.s1 = "." /\ call.arg.s2 = "."
      THEN (IF DigitsValue(call.arg.y) >= 70 THEN <<"1", "9">> ELSE <<"2", "0">>)
           \o call.arg.y \o <<"-">> \o PadZeros(call.arg.m, 2)
           \o <<"-">> \o PadZeros(call.arg.d, 2)
      ELSE IF Len(call.arg.y) = 4 /\ call.arg.s1 \in {"-", "."} /\ call.arg.s2 \in {"-", "."}
      THEN call.arg.y \o <<"-">> \o PadZeros(call.arg.m, 2)
           \o <<"-">> \o PadZeros(call.arg.d, 2)
      ELSE NoText

=============================================================================
